---------------------------- MODULE Spec2Model ----------------------------
(***************************************************************************)
(* Model of the markdown-structure-preserving translation pipeline of      *)
(* hf_translation_hub: translator/content.py (preprocess_content,          *)
(* split_markdown_sections, get_anchors, make_scaffold, is_in_code_block,  *)
(* fill_scaffold) driven by agent/workflow.py (translate_docs).            *)
(*                                                                         *)
(* A Python str is modelled as a sequence of one-character strings, so     *)
(* that find / replace / split / count / re.split / Template substitution  *)
(* are computed character by character, as the interpreter computes them.  *)
(* Positions returned by find are 0-based as in Python (-1: not found).    *)
(* A character that a TLA+ string literal cannot hold is written by name:  *)
(* "BACKQUOTE", and "U+C81C" for the Hangul syllable of that code point.   *)
(***************************************************************************)
EXTENDS Integers, Sequences, FiniteSets, TLC

(***************************************************************************)
(* Character classes                                                       *)
(***************************************************************************)
NL == "\n"

\* re's \s and str.strip() on the characters the model uses
Whitespace == {" ", "\t", "\n", "\r", "\f"}

LowerLetters == {"a", "b", "c", "d", "e", "f", "g", "h", "i", "j", "k", "l", "m",
                 "n", "o", "p", "q", "r", "s", "t", "u", "v", "w", "x", "y", "z"}

UpperToLower == [c \in {"A", "B", "C", "D", "E", "F", "G", "H", "I", "J", "K", "L", "M",
                        "N", "O", "P", "Q", "R", "S", "T", "U", "V", "W", "X", "Y", "Z"} |->
                   CASE c = "A" -> "a" [] c = "B" -> "b" [] c = "C" -> "c" [] c = "D" -> "d"
                     [] c = "E" -> "e" [] c = "F" -> "f" [] c = "G" -> "g" [] c = "H" -> "h"
                     [] c = "I" -> "i" [] c = "J" -> "j" [] c = "K" -> "k" [] c = "L" -> "l"
                     [] c = "M" -> "m" [] c = "N" -> "n" [] c = "O" -> "o" [] c = "P" -> "p"
                     [] c = "Q" -> "q" [] c = "R" -> "r" [] c = "S" -> "s" [] c = "T" -> "t"
                     [] c = "U" -> "u" [] c = "V" -> "v" [] c = "W" -> "w" [] c = "X" -> "x"
                     [] c = "Y" -> "y" [] c = "Z" -> "z"]

UpperLetters == DOMAIN UpperToLower

Digits == {"0", "1", "2", "3", "4", "5", "6", "7", "8", "9"}

\* str.lower() of one character (characters without case map to themselves)
LowerChar(c) == IF c \in UpperLetters THEN UpperToLower[c] ELSE c

(***************************************************************************)
(* Python str primitives                                                   *)
(***************************************************************************)
\* Whether sub occurs in s starting at the 1-based index i
OccursAt(s, sub, i) ==
    /\ i >= 1
    /\ i + Len(sub) - 1 <= Len(s)
    /\ \A k \in 1..Len(sub) : s[i + k - 1] = sub[k]

RECURSIVE FindFrom(_, _, _)
\* 1-based index of the first occurrence of sub in s at or after i, 0 if none
FindFrom(s, sub, i) ==
    IF i + Len(sub) - 1 > Len(s) THEN 0
    ELSE IF OccursAt(s, sub, i) THEN i
    ELSE FindFrom(s, sub, i + 1)

\* str.find(sub): 0-based index of the first occurrence, -1 if none
find(s, sub) == FindFrom(s, sub, 1) - 1

\* s[a:] for a 0-based a >= 0
SliceFrom(s, a) == SubSeq(s, a + 1, Len(s))

\* s[:b] for a 0-based b >= 0
SliceTo(s, b) == SubSeq(s, 1, b)

\* str.replace(old, new, 1): only the first occurrence is replaced
replace1(s, old, new) ==
    LET p == find(s, old)
    IN  IF p = -1 THEN s
        ELSE SliceTo(s, p) \o new \o SliceFrom(s, p + Len(old))

RECURSIVE split(_, _)
\* str.split(sep) for a non-empty separator
split(s, sep) ==
    LET p == find(s, sep)
    IN  IF p = -1 THEN <<s>>
        ELSE <<SliceTo(s, p)>> \o split(SliceFrom(s, p + Len(sep)), sep)

RECURSIVE count(_, _)
\* str.count(sub) for a non-empty sub: non-overlapping occurrences
count(s, sub) ==
    LET p == find(s, sub)
    IN  IF p = -1 THEN 0
        ELSE 1 + count(SliceFrom(s, p + Len(sub)), sub)

RECURSIVE LStrip(_)
LStrip(s) ==
    IF s # <<>> /\ s[1] \in Whitespace THEN LStrip(Tail(s)) ELSE s

RECURSIVE RStrip(_)
RStrip(s) ==
    IF s # <<>> /\ s[Len(s)] \in Whitespace THEN RStrip(SubSeq(s, 1, Len(s) - 1)) ELSE s

\* str.strip()
strip(s) == RStrip(LStrip(s))

RECURSIVE Concat(_)
\* "".join(list)
Concat(ss) ==
    IF ss = <<>> THEN <<>> ELSE Head(ss) \o Concat(Tail(ss))

RECURSIVE DecimalDigits(_)
DecimalDigits(n) ==
    LET d == <<"0", "1", "2", "3", "4", "5", "6", "7", "8", "9">>[(n % 10) + 1]
    IN  IF n < 10 THEN <<d>> ELSE DecimalDigits(n \div 10) \o <<d>>

\* str(i) of a non-negative int, as an f-string formats it
IntToStr(n) == DecimalDigits(n)


(***************************************************************************)
(* re and string.Template primitives used by content.py                    *)
(***************************************************************************)
RECURSIVE SkipNewlines(_)
SkipNewlines(s) ==
    IF s # <<>> /\ s[1] = NL THEN SkipNewlines(Tail(s)) ELSE s

RECURSIVE CollapseBlankLinesToOne(_)
\* Mutant of CollapseBlankLines: a run of newlines is collapsed to one newline
CollapseBlankLinesToOne(s) ==
    IF s = <<>> THEN <<>>
    ELSE IF Len(s) >= 2 /\ s[1] = NL /\ s[2] = NL
         THEN <<NL>> \o CollapseBlankLinesToOne(SkipNewlines(s))
         ELSE <<s[1]>> \o CollapseBlankLinesToOne(Tail(s))

RECURSIVE CollapseBlankLines(_)
\* re.sub(r"\n\n+", "\n\n", s)
CollapseBlankLines(s) ==
    IF s = <<>> THEN <<>>
    ELSE IF Len(s) >= 2 /\ s[1] = NL /\ s[2] = NL
         THEN <<NL, NL>> \o CollapseBlankLines(SkipNewlines(s))
         ELSE <<s[1]>> \o CollapseBlankLines(Tail(s))

RECURSIVE RunEnd(_, _, _)
\* 1-based index just past the run of characters of class cls starting at i
RunEnd(s, cls, i) ==
    IF i <= Len(s) /\ s[i] \in cls THEN RunEnd(s, cls, i + 1) ELSE i

RECURSIVE LineEnd(_, _)
\* 1-based index of the first "\n" at or after i, Len(s) + 1 if none: where
\* (.*)$ stops under re.MULTILINE
LineEnd(s, i) ==
    IF i <= Len(s) /\ s[i] # NL THEN LineEnd(s, i + 1) ELSE i

\* Whether ^(#+\s+)(.*)$ matches at the 1-based index i: i starts a line, a run
\* of '#' follows, then at least one whitespace character
HeaderAt(s, i) ==
    /\ i <= Len(s)
    /\ (i = 1 \/ s[i - 1] = NL)
    /\ s[i] = "#"
    /\ LET j == RunEnd(s, {"#"}, i) IN j <= Len(s) /\ s[j] \in Whitespace

RECURSIVE ReSplitHeaders(_, _, _)
\* re.split(r"^(#+\s+)(.*)$", s, flags=re.MULTILINE) scanning from i, the
\* current unmatched piece starting at from: [pre, level, title, body, ...]
ReSplitHeaders(s, i, from) ==
    IF i > Len(s) THEN <<SubSeq(s, from, Len(s))>>
    ELSE IF HeaderAt(s, i)
         THEN LET t == RunEnd(s, Whitespace, RunEnd(s, {"#"}, i))
                  e == LineEnd(s, t)
              IN  <<SubSeq(s, from, i - 1), SubSeq(s, i, t - 1), SubSeq(s, t, e - 1)>>
                    \o ReSplitHeaders(s, e, e)
         ELSE ReSplitHeaders(s, i + 1, from)

IdStart == LowerLetters \cup UpperLetters \cup {"_"}

IdChars == IdStart \cup Digits

RECURSIVE safe_substitute(_, _)
\* string.Template(t).safe_substitute(mapping), mapping a function from
\* identifiers (character sequences) to replacement texts.  The pattern is
\* \$(?:(\$)|([_a-z][_a-z0-9]*)|{([_a-z][_a-z0-9]*)}|()) with re.IGNORECASE:
\* "$$" gives "$", a known name is replaced, anything else is left as it is.
safe_substitute(t, mapping) ==
    IF t = <<>> THEN <<>>
    ELSE IF t[1] # "$" THEN <<t[1]>> \o safe_substitute(Tail(t), mapping)
    ELSE IF Len(t) >= 2 /\ t[2] = "$"
         THEN <<"$">> \o safe_substitute(SliceFrom(t, 2), mapping)
    ELSE IF Len(t) >= 2 /\ t[2] \in IdStart
         THEN LET e == RunEnd(t, IdChars, 2)
                  name == SubSeq(t, 2, e - 1)
              IN  (IF name \in DOMAIN mapping THEN mapping[name] ELSE SubSeq(t, 1, e - 1))
                    \o safe_substitute(SubSeq(t, e, Len(t)), mapping)
    ELSE IF Len(t) >= 3 /\ t[2] = "{" /\ t[3] \in IdStart
              /\ LET e == RunEnd(t, IdChars, 3) IN e <= Len(t) /\ t[e] = "}"
         THEN LET e == RunEnd(t, IdChars, 3)
                  name == SubSeq(t, 3, e - 1)
              IN  (IF name \in DOMAIN mapping THEN mapping[name] ELSE SubSeq(t, 1, e))
                    \o safe_substitute(SubSeq(t, e + 1, Len(t)), mapping)
    ELSE <<"$">> \o safe_substitute(Tail(t), mapping)

(***************************************************************************)
(* translator/content.py                                                   *)
(***************************************************************************)
\* The literal "$hf_i18n_placeholder" of make_scaffold and fill_scaffold
PlaceholderToken == <<"$", "h", "f", "_", "i", "1", "8", "n", "_",
                      "p", "l", "a", "c", "e", "h", "o", "l", "d", "e", "r">>

\* The key f"hf_i18n_placeholder{i}" of the substitution mapping
PlaceholderName(i) == Tail(PlaceholderToken) \o IntToStr(i)

BlankLine == <<NL, NL>>

\* The backquote character (a TLA+ string literal cannot hold it)
BQ == "BACKQUOTE"

\* The fence "```" counted by is_in_code_block
Fence == <<BQ, BQ, BQ>>

\* content[content.find("#"):] - find gives -1 when there is no '#', and
\* content[-1:] is then the last character of the document
FromFirstHash(content) ==
    LET p == find(content, <<"#">>)
    IN  IF p >= 0 THEN SliceFrom(content, p)
        ELSE IF content = <<>> THEN <<>> ELSE <<content[Len(content)]>>

preprocess_content(content) == CollapseBlankLines(FromFirstHash(content))

\* [level, title, content, level, title, content, ...]
split_markdown_sections(markdown) == Tail(ReSplitHeaders(markdown, 1, 1))

\* divided[1::3]
Titles(divided) == [i \in 1..(Len(divided) \div 3) |-> divided[3 * (i - 1) + 2]]

RECURSIVE KeepSlugChars(_)
\* re.sub(r"[^a-z0-9\s]+", "", s)
KeepSlugChars(s) ==
    IF s = <<>> THEN <<>>
    ELSE IF s[1] \in LowerLetters \cup Digits \cup Whitespace
         THEN <<s[1]>> \o KeepSlugChars(Tail(s))
         ELSE KeepSlugChars(Tail(s))

RECURSIVE CollapseSpaces(_)
\* re.sub(r"\s{2,}", " ", s)
CollapseSpaces(s) ==
    IF s = <<>> THEN <<>>
    ELSE IF Len(s) >= 2 /\ s[1] \in Whitespace /\ s[2] \in Whitespace
         THEN <<" ">> \o CollapseSpaces(SubSeq(s, RunEnd(s, Whitespace, 1), Len(s)))
         ELSE <<s[1]>> \o CollapseSpaces(Tail(s))

\* Mutant of Anchor: the title is not lowercased before the slug is cut
AnchorNoLower(title) ==
    LET kept == CollapseSpaces(strip(KeepSlugChars(title)))
        slug == [i \in 1..Len(kept) |-> IF kept[i] = " " THEN "-" ELSE kept[i]]
    IN  <<"[", "[">> \o slug \o <<"]", "]">>

\* one iteration of get_anchors
Anchor(title) ==
    LET lowered == [i \in 1..Len(title) |-> LowerChar(title[i])]
        kept    == CollapseSpaces(strip(KeepSlugChars(lowered)))
        slug    == [i \in 1..Len(kept) |-> IF kept[i] = " " THEN "-" ELSE kept[i]]
    IN  <<"[", "[">> \o slug \o <<"]", "]">>

get_anchors(divided) ==
    LET titles == Titles(divided)
    IN  [i \in 1..Len(titles) |-> Anchor(titles[i])]

\* is_in_code_block(text, position), position 0-based
is_in_code_block(text, position) == count(SliceTo(text, position), Fence) % 2 = 1


RECURSIVE ScaffoldLoop(_, _, _, _, _)
\* The for loop of make_scaffold from iteration i (0-based) on.  Next to the
\* scaffold text the loop's history is kept: origin[k] is the 1-based index
\* in content of the character the scaffold's k-th character was copied
\* from, and 0 for a character of an inserted placeholder; steps[i + 1]
\* records whether iteration i found its text, where, and the origins of the
\* characters the replace call consumed.
ScaffoldLoop(scaffold, origin, sections, i, steps) ==
    IF i >= Len(sections)
    THEN [template |-> scaffold, origin |-> origin, steps |-> steps]
    ELSE LET text == sections[i + 1]
             new  == PlaceholderToken \o IntToStr(i)
             p    == find(scaffold, text)
         IN  ScaffoldLoop(
                 replace1(scaffold, text, new),
                 IF p = -1 THEN origin
                 ELSE SliceTo(origin, p) \o [k \in 1..Len(new) |-> 0]
                        \o SliceFrom(origin, p + Len(text)),
                 sections, i + 1,
                 Append(steps, [found    |-> p # -1,
                                at       |-> p,
                                consumed |-> IF p = -1 THEN <<>>
                                             ELSE SubSeq(origin, p + 1, p + Len(text))]))

\* Mutant of make_scaffold_run: only the sections that are no header line
\* get a placeholder
make_scaffold_prose_only(content, to_translate) ==
    ScaffoldLoop(content, [k \in 1..Len(content) |-> k],
                 SelectSeq(split(to_translate, BlankLine),
                           LAMBDA t : t = <<>> \/ t[1] # "#"),
                 0, <<>>)

\* make_scaffold(content, to_translate) with the history of its loop
make_scaffold_run(content, to_translate) ==
    ScaffoldLoop(content, [k \in 1..Len(content) |-> k],
                 split(to_translate, BlankLine), 0, <<>>)

\* make_scaffold(content, to_translate).template
make_scaffold(content, to_translate) == make_scaffold_run(content, to_translate).template

\* Mutant of ReconcileAnchors: extra headers repeat the last anchor
ReconcileAnchorsRepeatLast(anchors, n) ==
    IF n < Len(anchors) THEN SubSeq(anchors, 1, n)
    ELSE anchors \o [k \in 1..(n - Len(anchors)) |->
                        IF anchors = <<>> THEN <<>> ELSE anchors[Len(anchors)]]

\* lines 117-124 of fill_scaffold: the anchors list cut or padded to the n
\* headers of the translated text
ReconcileAnchors(anchors, n) ==
    IF n < Len(anchors) THEN SubSeq(anchors, 1, n)
    ELSE anchors \o [k \in 1..(n - Len(anchors)) |-> <<>>]

\* lines 130-134: the title as it is written back, anchor being anchors[i]
AnchoredTitle(translated, korean_title, anchor) ==
    LET header_pos == find(translated, strip(korean_title))
    IN  IF header_pos # -1 /\ ~is_in_code_block(translated, header_pos)
        THEN korean_title \o <<" ">> \o anchor
        ELSE korean_title

\* lines 127-134: the loop that appends the anchors to the titles
AddAnchors(translated, translated_divided, anchors) ==
    [j \in 1..Len(translated_divided) |->
        IF j % 3 = 2 /\ (j + 1) \div 3 <= Len(anchors)
        THEN AnchoredTitle(translated, translated_divided[j], anchors[(j + 1) \div 3])
        ELSE translated_divided[j]]

\* lines 137-140: "".join of the (level, title, content) triples
Reconstruct(translated_divided) ==
    Concat(SubSeq(translated_divided, 1, 3 * (Len(translated_divided) \div 3)))

\* Mutant of ReconcileSections: missing sections are padded, extra sections
\* are kept
ReconcileSectionsPadOnly(translated_sections, placeholder_count) ==
    IF Len(translated_sections) < placeholder_count
    THEN translated_sections
           \o [k \in 1..(placeholder_count - Len(translated_sections)) |-> <<>>]
    ELSE translated_sections

\* lines 155-160: pad with empty sections or truncate to placeholder_count
ReconcileSections(translated_sections, placeholder_count) ==
    IF Len(translated_sections) < placeholder_count
    THEN translated_sections
           \o [k \in 1..(placeholder_count - Len(translated_sections)) |-> <<>>]
    ELSE IF Len(translated_sections) > placeholder_count
    THEN SubSeq(translated_sections, 1, placeholder_count)
    ELSE translated_sections

\* Mutant of SubstitutionMapping: the sections are numbered from 1
SubstitutionMappingFromOne(sections) ==
    [name \in {PlaceholderName(i) : i \in 1..Len(sections)} |->
        sections[CHOOSE i \in 1..Len(sections) : PlaceholderName(i) = name]]

\* line 167: {f"hf_i18n_placeholder{i}": text for i, text in enumerate(sections)}
SubstitutionMapping(sections) ==
    [name \in {PlaceholderName(i - 1) : i \in 1..Len(sections)} |->
        sections[CHOOSE i \in 1..Len(sections) : PlaceholderName(i - 1) = name]]

\* line 164: f"Error: Section count mismatch. Expected: {e}, Got: {g}"
MismatchMessage(e, g) ==
    <<"E", "r", "r", "o", "r", ":", " ", "S", "e", "c", "t", "i", "o", "n", " ",
      "c", "o", "u", "n", "t", " ", "m", "i", "s", "m", "a", "t", "c", "h", ".", " ",
      "E", "x", "p", "e", "c", "t", "e", "d", ":", " ">> \o IntToStr(e)
      \o <<",", " ", "G", "o", "t", ":", " ">> \o IntToStr(g)

\* fill_scaffold(content, to_translate, translated): its return value
\* (result) together with its local variables, named as in the source
\* (anchors0 is anchors before the header reconciliation, blocks is
\* translated_sections before the section reconciliation)
fill_scaffold(content, to_translate, translated) ==
    LET made               == make_scaffold_run(content, to_translate)
        scaffold           == made.template
        original_sections  == split(to_translate, BlankLine)
        divided            == split_markdown_sections(to_translate)
        anchors0           == get_anchors(divided)
        translated_divided == split_markdown_sections(translated)
        titles             == Titles(translated_divided)
        anchors            == IF Len(titles) # Len(anchors0)
                              THEN ReconcileAnchors(anchors0, Len(titles))
                              ELSE anchors0
        anchored           == AddAnchors(translated, translated_divided, anchors)
        reconstructed      == Reconstruct(anchored)
        blocks             == split(reconstructed, BlankLine)
        placeholder_count  == count(scaffold, PlaceholderToken)
        translated_sections == ReconcileSections(blocks, placeholder_count)
    IN  [scaffold              |-> scaffold,
         origin                |-> made.origin,
         steps                 |-> made.steps,
         original_sections     |-> original_sections,
         anchors0              |-> anchors0,
         titles                |-> titles,
         anchors               |-> anchors,
         translated_divided    |-> anchored,
         reconstructed_translated |-> reconstructed,
         blocks                |-> blocks,
         placeholder_count     |-> placeholder_count,
         translated_sections   |-> translated_sections,
         mismatch              |-> Len(translated_sections) # placeholder_count,
         result                |-> IF Len(translated_sections) # placeholder_count
                                   THEN MismatchMessage(placeholder_count,
                                                        Len(translated_sections))
                                   ELSE safe_substitute(scaffold,
                                            SubstitutionMapping(translated_sections))]


(***************************************************************************)
(* agent/workflow.py: translate_docs, one translation request              *)
(***************************************************************************)
\* lines 97-99 of translate_docs: a reply wrapped as <fence>md ... <fence>
\* is unwrapped with translated_content[5:-3].strip()
UnwrapFence(translated_content) ==
    LET opening == Fence \o <<"m", "d", NL>>
        n       == Len(translated_content)
    IN  IF OccursAt(translated_content, opening, 1)
           /\ OccursAt(translated_content, Fence, n - 2)
        THEN strip(SubSeq(translated_content, 6, n - 3))
        ELSE translated_content

(***************************************************************************)
(* translator/retriever.py and agent/workflow.py: the files to translate.  *)
(* A path is the sequence of its components, the extension of the file     *)
(* name being a component of its own: 'docs/source/en/a.md' is             *)
(* <<"docs", "source", "en", "a", ".md">>.                                 *)
(***************************************************************************)
\* x in xs
InList(x, xs) == \E i \in 1..Len(xs) : xs[i] = x

\* xs[:n]
FirstN(xs, n) == SubSeq(xs, 1, IF n < Len(xs) THEN n ELSE Len(xs))

\* en_docs_path
EnDocsPath == <<"docs", "source", "en">>

\* get_github_repo_files: the blobs of the tree whose path starts with docs
get_github_repo_files(tree) ==
    SelectSeq(tree, LAMBDA f : f # <<>> /\ f[1] = "docs")

\* file.endswith(".md") and Path(file).relative_to(en_docs_path) succeeds
IsEnglishDoc(file) ==
    /\ Len(file) > Len(EnDocsPath)
    /\ file[Len(file)] = ".md"
    /\ SubSeq(file, 1, Len(EnDocsPath)) = EnDocsPath

\* os.path.join(base_docs_path, lang.value, file_relative_path)
TranslatedPath(lang, file) ==
    <<"docs", "source", lang>> \o SubSeq(file, Len(EnDocsPath) + 1, Len(file))

\* Summary.first_missing_translation_files over the summary that report
\* builds: the English documents without a translated file, in tree order
first_missing_translation_files(lang, docs_file, length) ==
    FirstN(SelectSeq(SelectSeq(docs_file, IsEnglishDoc),
                     LAMBDA f : ~InList(TranslatedPath(lang, f), docs_file)),
           length)

\* report(project, target_lang, top_k, docs_file): the list it returns
report(target_lang, top_k, docs_file) ==
    first_missing_translation_files(target_lang, docs_file, top_k)

\* report_translation_target_files: the list it returns, given the tree and
\* the paths get_github_issue_open_pr found in the open PRs
report_translation_target_files(tree, in_progress, translate_lang, top_k) ==
    LET all_repo_files    == get_github_repo_files(tree)
        all_filepath_list == report(translate_lang, top_k * 2, all_repo_files)
        available_files   == SelectSeq(all_filepath_list,
                                       LAMBDA f : ~InList(f, in_progress))
    IN  FirstN(available_files, top_k)

(***************************************************************************)
(* Inputs: the documents the repository host serves and the replies the    *)
(* LLM gives.  Texts(pieces, n) is every text made of at most n pieces.    *)
(***************************************************************************)
RECURSIVE Texts(_, _)
Texts(pieces, n) ==
    IF n = 0 THEN {<<>>}
    ELSE LET shorter == Texts(pieces, n - 1)
         IN  shorter \cup {t \o p : t \in shorter, p \in pieces}

\* The end-to-end document of the specification:
\*   '<!-- license -->\n\n# Title\n\nSome text.\n\n## Sub\n\nMore text.\n'
DocLicensed ==
    <<"<", "!", "-", "-", " ", "l", "i", "c", "e", "n", "s", "e", " ", "-",
      "-", ">", NL, NL, "#", " ", "T", "i", "t", "l", "e", NL, NL, "S", "o",
      "m", "e", " ", "t", "e", "x", "t", ".", NL, NL, "#", "#", " ", "S",
      "u", "b", NL, NL, "M", "o", "r", "e", " ", "t", "e", "x", "t", ".", NL>>

\* A document with a fenced code block that holds a header-like line:
\*   '# Run\n\n<fence>\n# note\nx\n<fence>\n\nDone.\n'
DocCodeFence ==
    <<"#", " ", "R", "u", "n", NL, NL, BQ, BQ, BQ, NL, "#", " ", "n", "o",
      "t", "e", NL, "x", NL, BQ, BQ, BQ, NL, NL, "D", "o", "n", "e", ".", NL>>

\* A document with a table row and a run of three newlines:
\*   '# T\n\n\n| a |\n'
DocTable ==
    <<"#", " ", "T", NL, NL, NL, "|", " ", "a", " ", "|", NL>>

\* A document whose license comment holds the text of a later section:
\*   '<!-- x -->\n\n# A b\n\nx\n\nx\n'
DocRepeated ==
    <<"<", "!", "-", "-", " ", "x", " ", "-", "-", ">", NL, NL, "#", " ",
      "A", " ", "b", NL, NL, "x", NL, NL, "x", NL>>

\* The translation of DocLicensed given in the specification:
\*   '# \uc81c\ubaa9\n\n\uc5b4\ub5a4 \ud14d\uc2a4\ud2b8.\n\n## \ud558\uc704\n\n\ub354 \ub9ce\uc740 \ud14d\uc2a4\ud2b8.\n'
ReplyKorean ==
    <<"#", " ", "U+C81C", "U+BAA9", NL, NL, "U+C5B4", "U+B5A4", " ",
      "U+D14D", "U+C2A4", "U+D2B8", ".", NL, NL, "#", "#", " ", "U+D558",
      "U+C704", NL, NL, "U+B354", " ", "U+B9CE", "U+C740", " ", "U+D14D",
      "U+C2A4", "U+D2B8", ".", NL>>

\* A translation that kept one header only:
\*   '# \uc81c\ubaa9\n\n\ud14d\uc2a4\ud2b8.\n'
ReplyOneHeader ==
    <<"#", " ", "U+C81C", "U+BAA9", NL, NL, "U+D14D", "U+C2A4", "U+D2B8",
      ".", NL>>

\* A translation wrapped in a md fence, which translate_docs unwraps:
\*   '<fence>md\n# \uc2e4\ud589\n\n\uc644\ub8cc.\n<fence>'
ReplyFenced ==
    <<BQ, BQ, BQ, "m", "d", NL, "#", " ", "U+C2E4", "U+D589", NL, NL,
      "U+C644", "U+B8CC", ".", NL, BQ, BQ, BQ>>

\* A translation of DocCodeFence, the code block kept:
\*   '# \uc2e4\ud589\n\n<fence>\n# note\nx\n<fence>\n\n\uc644\ub8cc.\n'
ReplyCodeFence ==
    <<"#", " ", "U+C2E4", "U+D589", NL, NL, BQ, BQ, BQ, NL, "#", " ", "n",
      "o", "t", "e", NL, "x", NL, BQ, BQ, BQ, NL, NL, "U+C644", "U+B8CC",
      ".", NL>>

\* A translation with three headers and a leading sentence:
\*   '\ud14d\uc2a4\ud2b8\n# \uac00\n\n## \ub098\n\n### \ub2e4\n'
ReplyThreeHeaders ==
    <<"U+D14D", "U+C2A4", "U+D2B8", NL, "#", " ", "U+AC00", NL, NL, "#", "#",
      " ", "U+B098", NL, NL, "#", "#", "#", " ", "U+B2E4", NL>>

ScenarioDocs == {DocLicensed, DocCodeFence, DocTable, DocRepeated}

ScenarioReplies ==
    {ReplyKorean, ReplyOneHeader, ReplyFenced, ReplyCodeFence, ReplyThreeHeaders, <<>>}

(***************************************************************************)
(* State                                                                   *)
(***************************************************************************)
VARIABLES
    remote,               \* the document the repository host serves for the file
    reply,                \* the text the LLM answers with
    repo_files,           \* the paths of the repository tree, in tree order
    docs_in_progress,     \* the paths named by the open translation PRs
    pc,                   \* where the running request stands
    content,              \* translate_docs: content
    to_translate,         \* translate_docs: to_translate
    translated,           \* translate_docs: translated_content (after unwrapping)
    fs,                   \* the local variables of the fill_scaffold call
    translated_doc,       \* translate_docs: the document returned
    file_path,            \* translate_docs: file_path
    force_retranslate,    \* translate_docs: force_retranslate
    llm_calls,            \* calls of llm_translate made by the running request
    fetches,              \* calls of get_content made by the running request
    translation_result,   \* the files under translation_result/, by path
    step,                 \* state.step
    target_language,      \* state.target_language
    k_files,              \* state.k_files
    files_to_translate,   \* state.files_to_translate
    current_file_content, \* state.current_file_content["translated"]
    persistent_settings,  \* state.persistent_settings
    pr_request,           \* the arguments of the last call of generate_github_pr
    pr_pc,                \* the step run_translation_pr_workflow is at
    github_calls,         \* the calls made to GitHub by the PR agent, with their results
    workflow_result,      \* what run_translation_pr_workflow returned
    review_pc,            \* the step the reviewer service is at
    llm_review,           \* the JSON candidates of the raw response of the reviewing LLM
    review,               \* what parse_review_response returned, with the event
    submit_args,          \* the arguments of submit_pr_review
    posts,                \* the reviews posted to GitHub, in order
    review_outcome,       \* what submit_pr_review returned or raised
    toc_pc,               \* the step the toctree handler is at
    target_local,         \* the path of the translated file, as the toctree names it
    en_toctree,           \* the section of the English toctree with the target
    ko_toctree,           \* the caller's Korean toctree section
    updated_toctree       \* what add_new_toctree_entry returned

\* what the outside world holds
host == <<remote, reply, repo_files, docs_in_progress>>

\* the local variables of translate_docs
locals == <<content, to_translate, translated, fs, translated_doc>>

\* the arguments of translate_docs and the calls it has made
request == <<file_path, force_retranslate, llm_calls, fetches>>

\* the PR agent
pr_agent == <<pr_pc, github_calls, workflow_result>>

\* the reviewer service
reviewer == <<review_pc, llm_review, review, submit_args, posts, review_outcome>>

\* the toctree handler
toctree == <<toc_pc, target_local, en_toctree, ko_toctree, updated_toctree>>

\* the services around the chat workflow
services == <<pr_agent, reviewer, toctree>>

\* the fields of the ChatState object, and the call of generate_github_pr
\* made from them
chat == <<step, target_language, k_files, files_to_translate,
          current_file_content, persistent_settings, pr_request>>

vars == <<remote, reply, repo_files, docs_in_progress, pc, content,
          to_translate, translated, fs, translated_doc, file_path,
          force_retranslate, llm_calls, fetches, translation_result, step,
          target_language, k_files, files_to_translate,
          current_file_content, persistent_settings, pr_request, services>>

\* Two English documents of the repository
FileA == EnDocsPath \o <<"a", ".md">>

FileB == EnDocsPath \o <<"b", ".md">>

\* A file under translation_result/: absent, or present with a text
NoFile == [exists |-> FALSE, text |-> <<>>]

StoredFile(text) == [exists |-> TRUE, text |-> text]

\* ChatState.__init__: k_files
DefaultKFiles == 10

\* ChatState.__init__: the persistent settings of a new ChatState
EmptySettings ==
    [anthropic_api_key        |-> "",
     aws_bearer_token_bedrock |-> "",
     github_config            |-> [token |-> "", owner |-> "", repo_name |-> "",
                                   reference_pr_url |-> ""]]

\* generate_github_pr has not been called
NoRequest == [filepath |-> <<>>, translated_content |-> <<>>]

\* run_translation_pr_workflow has not been called
PrIdle ==
    /\ pr_pc = "idle"
    /\ github_calls = <<>>
    /\ workflow_result = [status |-> "none"]

\* The reviewer service has not been called
ReviewIdle ==
    /\ review_pc = "idle"
    /\ llm_review = <<>>
    /\ review = <<>>
    /\ submit_args = <<>>
    /\ posts = <<>>
    /\ review_outcome = [kind |-> "none"]

\* The toctree handler has not been called
TocIdle ==
    /\ toc_pc = "idle"
    /\ target_local = ""
    /\ en_toctree = <<>>
    /\ ko_toctree = <<>>
    /\ updated_toctree = <<>>

\* No service has been called
ServicesIdle == PrIdle /\ ReviewIdle /\ TocIdle

\* The state in which translate_docs is entered for FileA, from a new
\* ChatState with an API key, without a stored translation
Start ==
    /\ pc = "get_content"
    /\ content = <<>>
    /\ to_translate = <<>>
    /\ translated = <<>>
    /\ fs = <<>>
    /\ translated_doc = <<>>
    /\ file_path = FileA
    /\ force_retranslate = FALSE
    /\ llm_calls = 0
    /\ fetches = 0
    /\ translation_result = [f \in {FileA, FileB} |-> NoFile]
    /\ repo_files = <<FileA>>
    /\ docs_in_progress = <<>>
    /\ step = "translate"
    /\ target_language = "ko"
    /\ k_files = DefaultKFiles
    /\ files_to_translate = <<FileA>>
    /\ current_file_content = <<>>
    /\ persistent_settings = [EmptySettings EXCEPT !.anthropic_api_key = "key"]
    /\ pr_request = NoRequest
    /\ ServicesIdle

Init ==
    /\ remote \in ScenarioDocs
    /\ reply \in ScenarioReplies
    /\ Start

(***************************************************************************)
(* Actions: the steps of translate_docs                                    *)
(***************************************************************************)
\* Mutant of UseStored: force_retranslate is not looked at
UseStoredIgnoringForce ==
    /\ translation_result[file_path].exists
    /\ strip(translation_result[file_path].text) # <<>>

\* lines 73-79: a stored translation is used when force_retranslate is off,
\* the file exists and its text is not blank
UseStored ==
    /\ ~force_retranslate
    /\ translation_result[file_path].exists
    /\ strip(translation_result[file_path].text) # <<>>

\* step 1, get_content: the host answers 200 and the text is kept
GetContent ==
    /\ pc = "get_content"
    /\ ~UseStored
    /\ content' = remote
    /\ fetches' = fetches + 1
    /\ pc' = "preprocess"
    /\ UNCHANGED <<host, to_translate, translated, fs, translated_doc, file_path,
                   force_retranslate, llm_calls, translation_result, chat, services>>

\* step 1, get_content: any other status raises ValueError
GetContentFails ==
    /\ pc = "get_content"
    /\ ~UseStored
    /\ fetches' = fetches + 1
    /\ pc' = "failed"
    /\ UNCHANGED <<host, locals, file_path, force_retranslate, llm_calls,
                   translation_result, chat, services>>

\* step 1, preprocess_content
Preprocess ==
    /\ pc = "preprocess"
    /\ to_translate' = preprocess_content(content)
    /\ pc' = "llm_translate"
    /\ UNCHANGED <<host, content, translated, fs, translated_doc, request,
                   translation_result, chat, services>>

\* step 3, llm_translate answers and the md fence is unwrapped
LlmTranslate ==
    /\ pc = "llm_translate"
    /\ target_language = "ko"
    /\ translated' = UnwrapFence(reply)
    /\ llm_calls' = llm_calls + 1
    /\ pc' = "fill_scaffold"
    /\ UNCHANGED <<host, content, to_translate, fs, translated_doc, file_path,
                   force_retranslate, fetches, translation_result, chat, services>>

\* Mutant of LlmTranslateFails: the failed call is made again
LlmTranslateFailsRetrying ==
    /\ pc = "llm_translate"
    /\ target_language = "ko"
    /\ llm_calls < 3
    /\ llm_calls' = llm_calls + 1
    /\ pc' = IF llm_calls = 2 THEN "failed" ELSE "llm_translate"
    /\ UNCHANGED <<host, locals, file_path, force_retranslate, fetches,
                   translation_result, chat, services>>

\* step 3, llm_translate raises (no key, or the provider fails)
LlmTranslateFails ==
    /\ pc = "llm_translate"
    /\ target_language = "ko"
    /\ llm_calls' = llm_calls + 1
    /\ pc' = "failed"
    /\ UNCHANGED <<host, locals, file_path, force_retranslate, fetches,
                   translation_result, chat, services>>

\* step 4, fill_scaffold, and the return of translate_docs
FillScaffold ==
    /\ pc = "fill_scaffold"
    /\ fs' = fill_scaffold(content, to_translate, translated)
    /\ translated_doc' = fs'.result
    /\ pc' = "done"
    /\ UNCHANGED <<host, content, to_translate, translated, request,
                   translation_result, chat, services>>

Next ==
    \/ GetContent
    \/ GetContentFails
    \/ Preprocess
    \/ LlmTranslate
    \/ LlmTranslateFails
    \/ FillScaffold

Spec == Init /\ [][Next]_vars


(***************************************************************************)
(* Segmentation: every document of at most MaxDocPieces pieces, with an    *)
(* LLM that answers the to-translate text unchanged.                       *)
(***************************************************************************)
MaxDocPieces == 5

\* '#', ' ', a newline, a blank line, a letter that is no part of the
\* placeholder token, a letter that is part of it, and the '$' of Template
DocPieces == {<<"#">>, <<" ">>, <<NL>>, BlankLine, <<"b">>, <<"e">>, <<"$">>}

SegDocs == Texts(DocPieces, MaxDocPieces) \cup ScenarioDocs

InitSeg ==
    /\ remote \in SegDocs
    /\ reply = preprocess_content(remote)
    /\ Start

SpecSeg == InitSeg /\ [][Next]_vars

(***************************************************************************)
(* Reassembly: a few documents, with every LLM reply of at most            *)
(* MaxReplyPieces pieces (and the scenario documents with their replies).  *)
(***************************************************************************)
MaxReplyPieces == 5

\* Two headers and four sections:
\*   '# T\n\nx\n\n## U v\n\ny'
DocTwoHeaders ==
    <<"#", " ", "T", NL, NL, "x", NL, NL, "#", "#", " ", "U", " ", "v", NL,
      NL, "y">>

\* One header and two sections, the second one a text that also occurs in
\* the placeholder token:
\*   '# T\n\ne'
DocShortSection ==
    <<"#", " ", "T", NL, NL, "e">>

FillDocs == {DocTwoHeaders, DocShortSection}

\* A header marker, a letter, a newline, a blank line and a code fence
ReplyPieces == {<<"#", " ">>, <<"b">>, <<NL>>, BlankLine, Fence}

InitFill ==
    /\ \/ remote \in FillDocs /\ reply \in Texts(ReplyPieces, MaxReplyPieces)
       \/ remote \in ScenarioDocs /\ reply \in ScenarioReplies
    /\ Start

SpecFill == InitFill /\ [][Next]_vars

(***************************************************************************)
(* Code fences: one document, with every LLM reply of at most              *)
(* MaxFencePieces pieces that are a header marker, a letter, a newline or  *)
(* a code fence.                                                           *)
(***************************************************************************)
MaxFencePieces == 6

FencePieces == {<<"#", " ">>, <<"b">>, <<NL>>, Fence}

InitFence ==
    /\ remote = DocTwoHeaders
    /\ reply \in Texts(FencePieces, MaxFencePieces)
    /\ Start

SpecFence == InitFence /\ [][Next]_vars

(***************************************************************************)
(* Claims                                                                  *)
(***************************************************************************)
\* The to-translate text the specification gives for DocLicensed:
\*   '# Title\n\nSome text.\n\n## Sub\n\nMore text.\n'
ExpectedToTranslate ==
    <<"#", " ", "T", "i", "t", "l", "e", NL, NL, "S", "o", "m", "e", " ",
      "t", "e", "x", "t", ".", NL, NL, "#", "#", " ", "S", "u", "b", NL, NL,
      "M", "o", "r", "e", " ", "t", "e", "x", "t", ".", NL>>

\* The document the specification gives for DocLicensed and ReplyKorean:
\*   '<!-- license -->\n\n# \uc81c\ubaa9 [[title]]\n\n\uc5b4\ub5a4 \ud14d\uc2a4\ud2b8.\n\n## \ud558\uc704 [[sub]]\n\n\ub354 \ub9ce\uc740 \ud14d\uc2a4\ud2b8.\n'
ExpectedKoreanDoc ==
    <<"<", "!", "-", "-", " ", "l", "i", "c", "e", "n", "s", "e", " ", "-",
      "-", ">", NL, NL, "#", " ", "U+C81C", "U+BAA9", " ", "[", "[", "t",
      "i", "t", "l", "e", "]", "]", NL, NL, "U+C5B4", "U+B5A4", " ",
      "U+D14D", "U+C2A4", "U+D2B8", ".", NL, NL, "#", "#", " ", "U+D558",
      "U+C704", " ", "[", "[", "s", "u", "b", "]", "]", NL, NL, "U+B354",
      " ", "U+B9CE", "U+C740", " ", "U+D14D", "U+C2A4", "U+D2B8", ".", NL>>

\* C3 - End-to-end scenario: for the document DocLicensed, preprocess_content
\* gives ExpectedToTranslate, and fill_scaffold with the translated text
\* ReplyKorean returns exactly ExpectedKoreanDoc (the license comment kept,
\* each header followed by the anchor of the original header).
C3_EndToEnd ==
    (remote = DocLicensed /\ reply = ReplyKorean) =>
        /\ pc \in {"llm_translate", "fill_scaffold", "done"} =>
               to_translate = ExpectedToTranslate
        /\ pc = "done" => translated_doc = ExpectedKoreanDoc

\* C3 witness: the scenario has run to the end
C3_Witness ==
    /\ pc = "done"
    /\ content = DocLicensed
    /\ translated = ReplyKorean
    /\ translated_doc = ExpectedKoreanDoc


\* The mapping of the identity translation: placeholder i stands for the
\* i-th section of the to-translate text
IdentityMapping == SubstitutionMapping(split(to_translate, BlankLine))

\* C1 - Scaffold round-trip: for every document D, with T =
\* preprocess_content(D), substituting section i of T.split("\n\n") back
\* into placeholder i of make_scaffold(D, T) with safe_substitute yields
\* exactly D.
C1_RoundTrip ==
    pc = "done" => safe_substitute(fs.scaffold, IdentityMapping) = content

\* C2 - Placeholder/section count invariant: the number of occurrences of
\* "$hf_i18n_placeholder" in the scaffold equals the number of to-translate
\* sections, for every document.
C2_PlaceholderCount ==
    pc = "done" => fs.placeholder_count = Len(split(to_translate, BlankLine))

\* The 1-based indices of content that lie before its first '#'
LicenseZone == 1..(IF find(content, <<"#">>) = -1 THEN 0 ELSE find(content, <<"#">>))

\* The 1-based indices of content inside a fenced code block (an odd number
\* of fences precedes the character), the fences' own backquotes left out
FenceZone ==
    {k \in 1..Len(content) : content[k] # BQ /\ is_in_code_block(content, k - 1)}

\* The 1-based indices of content on a table row, a line ^\|.*\|$
TableZone ==
    {k \in 1..Len(content) :
        \E a \in 1..k : \E z \in k..Len(content) :
            /\ a = 1 \/ content[a - 1] = NL
            /\ z = Len(content) \/ content[z + 1] = NL
            /\ a < z /\ content[a] = "|" /\ content[z] = "|"
            /\ \A j \in a..z : content[j] # NL}

\* The characters of content that the scaffold still holds literally
LiteralInScaffold == {fs.origin[k] : k \in 1..Len(fs.origin)} \ {0}

\* C9 - Scaffold frame: the license header preceding the first '#', the
\* content of fenced code blocks and the table rows all remain literal in
\* the scaffold; make_scaffold replaces text of the to-translate zone only.
C9_ScaffoldFrame ==
    pc = "done" => (LicenseZone \cup FenceZone \cup TableZone) \subseteq LiteralInScaffold

\* C10 - First occurrence, no double consumption: every section consumes an
\* occurrence of its text made of characters of the document only (never of
\* a placeholder inserted for an earlier section), no character of the
\* document is consumed twice, and equal sections consume their occurrences
\* in document order.
C10_NoDoubleConsumption ==
    pc = "done" =>
        \A i \in 1..Len(fs.steps) :
            /\ fs.steps[i].found
            /\ \A k \in 1..Len(fs.steps[i].consumed) : fs.steps[i].consumed[k] > 0
            /\ \A j \in 1..(i - 1) :
                   \A a \in 1..Len(fs.steps[j].consumed) :
                       \A b \in 1..Len(fs.steps[i].consumed) :
                           /\ fs.steps[j].consumed[a] # fs.steps[i].consumed[b]
                           /\ fs.original_sections[j] = fs.original_sections[i] =>
                                  fs.steps[j].consumed[a] < fs.steps[i].consumed[b]


\* The i-th (1-based) double-newline-delimited block of the reconstructed
\* translated text, the empty text when there is no such block
TranslatedBlock(i) ==
    LET blocks == split(fs.reconstructed_translated, BlankLine)
    IN  IF i <= Len(blocks) THEN blocks[i] ELSE <<>>

\* Placeholder i - 1 standing for the i-th block, for every i up to n
PositionalMapping(n) ==
    [name \in {PlaceholderName(i - 1) : i \in 1..n} |->
        TranslatedBlock(CHOOSE i \in 1..n : PlaceholderName(i - 1) = name)]

RECURSIVE TokensInOrder(_, _)
\* The scaffold of a document whose n sections are all of it, placeholders
\* i - 1 .. n - 1: "$hf_i18n_placeholder0\n\n$hf_i18n_placeholder1..."
TokensInOrder(i, n) ==
    IF i > n THEN <<>>
    ELSE PlaceholderToken \o IntToStr(i - 1)
           \o (IF i < n THEN BlankLine ELSE <<>>) \o TokensInOrder(i + 1, n)

RECURSIVE BlocksInOrder(_, _)
\* The blocks i .. n joined by blank lines
BlocksInOrder(i, n) ==
    IF i > n THEN <<>>
    ELSE TranslatedBlock(i) \o (IF i < n THEN BlankLine ELSE <<>>) \o BlocksInOrder(i + 1, n)

HeaderPosition(i) ==
    LET divided == split_markdown_sections(translated)
    IN  Len(translated) - Len(Concat(SubSeq(divided, 3 * (i - 1) + 1, Len(divided))))

\* The title of the i-th header of translated as fill_scaffold wrote it back
EmittedTitle(i) == fs.translated_divided[3 * (i - 1) + 2]

Min(a, b) == IF a < b THEN a ELSE b

\* C5 - Positional anchor reuse: for every i up to the smaller of the two
\* header counts, the i-th header of the translated text, when it lies
\* outside every fenced code block, is written back as its title, a space
\* and the anchor of the i-th header of the original text.
C5_PositionalAnchorReuse ==
    pc = "done" =>
        \A i \in 1..Min(Len(fs.anchors0), Len(fs.titles)) :
            ~is_in_code_block(translated, HeaderPosition(i)) =>
                EmittedTitle(i) = fs.titles[i] \o <<" ">> \o fs.anchors0[i]

\* C6 - Code-fence anchor suppression: a header-like line "# Title" of the
\* translated text that lies inside a fenced code block (an odd number of
\* fences precedes the line) is written back without an anchor.  Only the
\* header lines that do have a title are looked at.
C6_CodeFenceSuppression ==
    pc = "done" =>
        \A i \in 1..Len(fs.titles) :
            (fs.titles[i] # <<>> /\ is_in_code_block(translated, HeaderPosition(i))) =>
                EmittedTitle(i) \in {fs.titles[i], fs.titles[i] \o <<" ">>}

\* C7 - Header-count mismatch is non-fatal: with k headers in the translated
\* text and n anchors of the original, fill_scaffold uses the first k
\* anchors when k < n and gives every header beyond the n-th an empty anchor
\* when k > n; it returns a document, never the mismatch message.
C7_HeaderMismatchNonFatal ==
    pc = "done" =>
        /\ Len(fs.anchors) = Len(fs.titles)
        /\ \A i \in 1..Len(fs.titles) :
               /\ i <= Len(fs.anchors0) => fs.anchors[i] = fs.anchors0[i]
               /\ i > Len(fs.anchors0) =>
                      /\ fs.anchors[i] = <<>>
                      /\ EmittedTitle(i) \in {fs.titles[i], fs.titles[i] \o <<" ">>}
        /\ ~fs.mismatch
        /\ translated_doc # MismatchMessage(fs.placeholder_count, Len(fs.translated_sections))

\* C7 witness: more headers in the translation than anchors, the extra
\* header written back with an empty anchor
C7_Witness ==
    /\ pc = "done"
    /\ Len(fs.anchors0) >= 1
    /\ Len(fs.titles) > Len(fs.anchors0)
    /\ fs.titles[Len(fs.titles)] # <<>>
    /\ EmittedTitle(Len(fs.titles)) = fs.titles[Len(fs.titles)] \o <<" ">>
    /\ EmittedTitle(1) = fs.titles[1] \o <<" ">> \o fs.anchors0[1]

(***************************************************************************)
(* Preprocessing: every document of at most MaxPrePieces pieces that are a *)
(* '#', a newline or a letter, with an LLM that answers the document       *)
(* unchanged.                                                              *)
(***************************************************************************)
MaxPrePieces == 7

PrePieces == {<<"#">>, <<NL>>, <<"b">>}

InitPre ==
    /\ remote \in Texts(PrePieces, MaxPrePieces)
    /\ reply = remote
    /\ Start

SpecPre == InitPre /\ [][Next]_vars

\* translate_docs has run preprocess_content on the fetched document
Preprocessed == pc \in {"llm_translate", "fill_scaffold", "done"}

\* The part of the document from its first '#'
HashSuffix == SliceFrom(content, find(content, <<"#">>))

\* The positions of s that survive the normalization of blank lines: a
\* newline is dropped when the two characters before it are newlines too
KeptPositions(s) ==
    {k \in 1..Len(s) :
        ~(k >= 3 /\ s[k] = NL /\ s[k - 1] = NL /\ s[k - 2] = NL)}

\* s with every run of two or more newlines cut to two
NewlineRunsCut(s) ==
    [j \in 1..Cardinality(KeptPositions(s)) |->
        s[CHOOSE k \in KeptPositions(s) :
             Cardinality({m \in KeptPositions(s) : m <= k}) = j]]

\* C11: for a document with a '#', preprocess_content returns the suffix from
\* the first '#' with every run of two or more newlines replaced by exactly
\* two: the result starts with '#' and has no three consecutive newlines.
C11_PreprocessReference ==
    (Preprocessed /\ find(content, <<"#">>) # -1) =>
        /\ to_translate = NewlineRunsCut(HashSuffix)
        /\ to_translate[1] = "#"
        /\ find(to_translate, <<NL, NL, NL>>) = -1

\* A document with text before its first '#' and three newlines after it
C11_Witness ==
    /\ Preprocessed
    /\ find(content, <<"#">>) > 0
    /\ find(HashSuffix, <<NL, NL, NL>>) # -1
    /\ Len(to_translate) < Len(HashSuffix)

\* C12: for a document without any '#', preprocess_content keeps the entire
\* document, only its runs of newlines being normalized.
C12_NoHashKeepsAll ==
    (Preprocessed /\ find(content, <<"#">>) = -1) =>
        to_translate = NewlineRunsCut(content)

(***************************************************************************)
(* Anchors: the documents '# ' + title for every title of at most          *)
(* MaxTitlePieces pieces, and documents with two headers, with an LLM that *)
(* answers the document unchanged.                                         *)
(***************************************************************************)
MaxTitlePieces == 4

\* An upper-case letter, a lower-case letter, a digit, a space, a tab and
\* two characters that no slug keeps
TitlePieces == {<<"N">>, <<"b">>, <<"1">>, <<" ">>, <<"\t">>, <<"-">>, <<"!">>}

\* The header of the specification's anchor example:
\*   '# Number of accelerators'
DocAccelerators ==
    <<"#", " ", "N", "u", "m", "b", "e", "r", " ", "o", "f", " ", "a", "c", "c",
      "e", "l", "e", "r", "a", "t", "o", "r", "s">>

AnchorDocs ==
    {<<"#", " ">> \o t : t \in Texts(TitlePieces, MaxTitlePieces)}
        \cup {DocAccelerators, DocTwoHeaders, DocLicensed}

InitAnchor ==
    /\ remote \in AnchorDocs
    /\ reply = remote
    /\ Start

SpecAnchor == InitAnchor /\ [][Next]_vars

\* The headers of the text sent to the LLM, in order
OriginalTitles == Titles(split_markdown_sections(to_translate))

\* The title with every character outside [a-z0-9] and whitespace removed
SlugChars(title) ==
    SelectSeq([i \in 1..Len(title) |-> LowerChar(title[i])],
              LAMBDA c : c \in LowerLetters \cup Digits \cup Whitespace)

\* Every run of whitespace of s replaced by one space
OneSpacePerRun(s) ==
    LET first == {k \in 1..Len(s) :
                     s[k] \notin Whitespace \/ k = 1 \/ s[k - 1] \notin Whitespace}
    IN  [j \in 1..Cardinality(first) |->
            LET k == CHOOSE k \in first : Cardinality({m \in first : m <= k}) = j
            IN  IF s[k] \in Whitespace THEN " " ELSE s[k]]

\* s without the spaces at its two ends
Trimmed(s) ==
    LET inner == {k \in 1..Len(s) : s[k] # " "}
    IN  IF inner = {} THEN <<>>
        ELSE SubSeq(s, CHOOSE k \in inner : \A m \in inner : k <= m,
                       CHOOSE k \in inner : \A m \in inner : k >= m)

\* The slug of a title: lowercased, filtered, whitespace runs collapsed to
\* one space, trimmed, spaces replaced by hyphens
Slug(title) ==
    LET t == Trimmed(OneSpacePerRun(SlugChars(title)))
    IN  [i \in 1..Len(t) |-> IF t[i] = " " THEN "-" ELSE t[i]]

\* C13: get_anchors returns one anchor per header, in header order, and the
\* anchor of a header is '[[' + slug + ']]' where the slug is the title
\* lowercased, without the characters outside [a-z0-9] and whitespace, its
\* whitespace runs collapsed to one space, trimmed, its spaces hyphens.
C13_AnchorSlug ==
    pc = "done" =>
        /\ Len(fs.anchors0) = Len(OriginalTitles)
        /\ \A i \in 1..Len(OriginalTitles) :
              fs.anchors0[i] = <<"[", "[">> \o Slug(OriginalTitles[i]) \o <<"]", "]">>

\* The texts of the document that make_scaffold replaced by placeholders 0,
\* 1, ... (the empty text for a section it did not find)
ReplacedTexts ==
    [i \in 1..Len(fs.steps) |->
        [k \in 1..Len(fs.steps[i].consumed) |-> content[fs.steps[i].consumed[k]]]]

SomeText == <<"S", "o", "m", "e", " ", "t", "e", "x", "t", ".">>

MoreText == <<"M", "o", "r", "e", " ", "t", "e", "x", "t", ".">>

LicensedAnchors ==
    << <<"[", "[", "t", "i", "t", "l", "e", "]", "]">>,
       <<"[", "[", "s", "u", "b", "]", "]">> >>

\* C14 as stated: for DocLicensed make_scaffold produces a scaffold with
\* exactly 2 placeholders, standing for 'Some text.' and 'More text.', and
\* the anchors of the original are exactly [[title]] and [[sub]].
C14_TwoPlaceholders ==
    (pc = "done" /\ content = DocLicensed) =>
        /\ count(fs.scaffold, PlaceholderToken) = 2
        /\ ReplacedTexts = <<SomeText, MoreText>>
        /\ fs.anchors0 = LicensedAnchors

\* C14 amended: for DocLicensed make_scaffold produces a scaffold with
\* exactly 4 placeholders, standing for '# Title', 'Some text.', '## Sub' and
\* 'More text.\n' (the header lines are sections too), only the license
\* comment and the blank lines between sections staying literal, and the
\* anchors of the original are exactly [[title]] and [[sub]].
C14_FourPlaceholders ==
    (pc = "done" /\ content = DocLicensed) =>
        /\ count(fs.scaffold, PlaceholderToken) = 4
        /\ ReplacedTexts = << <<"#", " ", "T", "i", "t", "l", "e">>, SomeText,
                              <<"#", "#", " ", "S", "u", "b">>, MoreText \o <<NL>> >>
        /\ fs.scaffold = SubSeq(DocLicensed, 1, 18) \o TokensInOrder(1, 4)
        /\ fs.anchors0 = LicensedAnchors

\* C14 witness: the scaffold of DocLicensed has been made
C14_Witness ==
    /\ pc = "done"
    /\ content = DocLicensed
    /\ Len(fs.steps) = 4
    /\ \A i \in 1..4 : fs.steps[i].found

(***************************************************************************)
(* agent/handler.py: the handlers of the chat workflow.  A handler runs    *)
(* when no translation request is running; start_translation_process runs *)
(* translate_docs step by step and then stores its result.                 *)
(***************************************************************************)
\* no request is running
Idle == pc \in {"idle", "persisted", "failed"}

\* the language codes of the language selector that the model tells apart
Langs == {"ko", "ja"}

\* message.lower()
Lower(s) == [i \in 1..Len(s) |-> LowerChar(s[i])]

\* any(word in message.lower() for word in words)
HasWord(message, words) == \E w \in words : find(Lower(message), w) # -1

\* handle_user_message: ["yes", "proceed", "start", "translate", "translation"]
StartWords ==
    {<<"y", "e", "s">>, <<"p", "r", "o", "c", "e", "e", "d">>,
     <<"s", "t", "a", "r", "t">>,
     <<"t", "r", "a", "n", "s", "l", "a", "t", "e">>,
     <<"t", "r", "a", "n", "s", "l", "a", "t", "i", "o", "n">>}

\* handle_general_message: ["help", "what", "how"]
HelpWords == {<<"h", "e", "l", "p">>, <<"w", "h", "a", "t">>, <<"h", "o", "w">>}

RestartWord == <<"r", "e", "s", "t", "a", "r", "t">>

\* start_translation_process calls translate_docs(file, force)
BeginRequest(file, force) ==
    /\ pc' = "get_content"
    /\ file_path' = file
    /\ force_retranslate' = force
    /\ llm_calls' = 0
    /\ fetches' = 0
    /\ content' = <<>>
    /\ to_translate' = <<>>
    /\ translated' = <<>>
    /\ fs' = <<>>
    /\ translated_doc' = <<>>

\* state = ChatState(): the fields other than persistent_settings
NewChatState ==
    /\ step' = "welcome"
    /\ target_language' = "ko"
    /\ k_files' = DefaultKFiles
    /\ files_to_translate' = <<>>
    /\ current_file_content' = <<>>

\* process_file_search_handler: the search succeeds
ProcessFileSearchHandler(lang, k) ==
    /\ Idle
    /\ lang = "ko"
    /\ target_language' = lang
    /\ k_files' = k
    /\ step' = "find_files"
    /\ files_to_translate' =
           report_translation_target_files(repo_files, docs_in_progress, lang, k)
    /\ UNCHANGED <<host, pc, locals, request, translation_result,
                   current_file_content, persistent_settings, pr_request, services>>

\* process_file_search_handler: report_translation_target_files raises (the
\* rate limit, or no issue registered for the language)
ProcessFileSearchFails(lang, k) ==
    /\ Idle
    /\ target_language' = lang
    /\ k_files' = k
    /\ step' = "find_files"
    /\ UNCHANGED <<host, pc, locals, request, translation_result,
                   files_to_translate, current_file_content, persistent_settings, pr_request, services>>

\* update_language_selection
UpdateLanguageSelection(lang) ==
    /\ Idle
    /\ target_language' = lang
    /\ UNCHANGED <<host, pc, locals, request, translation_result, step, k_files,
                   files_to_translate, current_file_content, persistent_settings, pr_request, services>>

\* update_persistent_config
UpdatePersistentConfig(api_provider, anthropic_key, aws_bearer_token_bedrock, github_token, github_owner, github_repo, reference_pr_url) ==
    /\ Idle
    /\ persistent_settings' =
           [anthropic_api_key |->
                IF api_provider = "Anthropic" THEN anthropic_key ELSE "",
            aws_bearer_token_bedrock |->
                IF api_provider = "AWS Bedrock" THEN aws_bearer_token_bedrock ELSE "",
            github_config |->
                [token            |-> github_token,
                 owner            |-> github_owner,
                 repo_name        |-> github_repo,
                 reference_pr_url |-> IF reference_pr_url = ""
                                      THEN "config.reference_pr_url"
                                      ELSE reference_pr_url]]
    /\ UNCHANGED <<host, pc, locals, request, translation_result, step,
                   target_language, k_files, files_to_translate,
                   current_file_content, pr_request, services>>

\* start_translate_handler, up to its call of translate_docs
StartTranslateHandler(file_to_translate, force) ==
    /\ Idle
    /\ \/ persistent_settings.anthropic_api_key # ""
       \/ persistent_settings.aws_bearer_token_bedrock # ""
    /\ file_to_translate # <<>>
    /\ files_to_translate' = <<file_to_translate>>
    /\ step' = "translate"
    /\ BeginRequest(file_to_translate, force)
    /\ UNCHANGED <<host, translation_result, target_language, k_files,
                   current_file_content, persistent_settings, pr_request, services>>

\* handle_user_message, lines 275-285: in step find_files a message with a
\* start word starts the translation of the first file
StartByMessage(message) ==
    /\ Idle
    /\ strip(message) # <<>>
    /\ step = "find_files"
    /\ HasWord(message, StartWords)
    /\ files_to_translate # <<>>
    /\ step' = "translate"
    /\ BeginRequest(files_to_translate[1], FALSE)
    /\ UNCHANGED <<host, translation_result, target_language, k_files,
                   files_to_translate, current_file_content, persistent_settings, pr_request, services>>

\* handle_user_message, lines 291-293, and handle_general_message, lines
\* 250-253: a message with the word restart makes a new ChatState
RestartByMessage(message) ==
    /\ Idle
    /\ strip(message) # <<>>
    /\ ~(step = "find_files" /\ HasWord(message, StartWords))
    /\ ~HasWord(message, HelpWords)
    /\ HasWord(message, {RestartWord})
    /\ NewChatState
    /\ persistent_settings' = EmptySettings
    /\ UNCHANGED <<host, pc, locals, request, translation_result, pr_request, services>>

\* restart_handler
RestartHandler ==
    /\ Idle
    /\ NewChatState
    /\ persistent_settings' = persistent_settings
    /\ UNCHANGED <<host, pc, locals, request, translation_result, pr_request, services>>

\* translate_docs, lines 73-79: the stored translation is returned
LoadStored ==
    /\ pc = "get_content"
    /\ UseStored
    /\ translated_doc' = translation_result[file_path].text
    /\ pc' = "loaded"
    /\ UNCHANGED <<host, content, to_translate, translated, fs, request,
                   translation_result, chat, services>>

\* Mutant of PromptFails: the language code itself is used as the name of
\* the language and the LLM is called
PromptFallsBack ==
    /\ pc = "llm_translate"
    /\ target_language # "ko"
    /\ translated' = UnwrapFence(reply)
    /\ llm_calls' = llm_calls + 1
    /\ pc' = "fill_scaffold"
    /\ UNCHANGED <<host, content, to_translate, fs, translated_doc, file_path,
                   force_retranslate, fetches, translation_result, chat, services>>

\* translate_docs, lines 86-88: translation_lang is bound for "ko" only, and
\* reading it for another language raises
PromptFails ==
    /\ pc = "llm_translate"
    /\ target_language # "ko"
    /\ pc' = "failed"
    /\ UNCHANGED <<host, locals, request, translation_result, chat, services>>

\* Mutant of Persist: what translate_docs left behind is stored after a
\* failure too
PersistAfterFailure ==
    /\ \/ pc \in {"done", "loaded"}
       \/ pc = "failed" /\ current_file_content # translated_doc
    /\ current_file_content' = translated_doc
    /\ translation_result' =
           [translation_result EXCEPT ![file_path] = StoredFile(translated_doc)]
    /\ pc' = "persisted"
    /\ UNCHANGED <<host, locals, request, step, target_language, k_files,
                   files_to_translate, persistent_settings, pr_request, services>>

\* start_translation_process, lines 196-203: the document translate_docs
\* returned is kept in the state and written under translation_result/
Persist ==
    /\ pc \in {"done", "loaded"}
    /\ current_file_content' = translated_doc
    /\ translation_result' =
           [translation_result EXCEPT ![file_path] = StoredFile(translated_doc)]
    /\ pc' = "persisted"
    /\ UNCHANGED <<host, locals, request, step, target_language, k_files,
                   files_to_translate, persistent_settings, pr_request, services>>

\* The messages a user sends
Messages ==
    {RestartWord, <<"Y", "e", "s">>,
     <<"h", "o", "w", " ", "t", "o", " ", "r", "e", "s", "t", "a", "r", "t">>,
     <<"R", "e", "s", "t", "a", "r", "t", "!">>, <<" ">>}

\* The top_k values of a file search
MaxTopK == 2

NextChat ==
    \/ \E lang \in Langs, k \in 1..MaxTopK : ProcessFileSearchHandler(lang, k)
    \/ \E lang \in Langs, k \in 1..MaxTopK : ProcessFileSearchFails(lang, k)
    \/ \E lang \in Langs : UpdateLanguageSelection(lang)
    \/ \E provider \in {"Anthropic", "AWS Bedrock", ""}, token \in {"", "ghp"} :
          UpdatePersistentConfig(provider, "key", "aws", token, "owner", "repo", "")
    \/ \E file \in {FileA, FileB}, force \in BOOLEAN :
          StartTranslateHandler(file, force)
    \/ \E message \in Messages : StartByMessage(message)
    \/ \E message \in Messages : RestartByMessage(message)
    \/ RestartHandler
    \/ LoadStored
    \/ PromptFails
    \/ Persist
    \/ Next

\* The application starts with a new ChatState; translation_result/ may
\* hold a translation of FileA, or a blank file, from an earlier run
InitChat ==
    /\ remote = DocLicensed
    /\ reply = ReplyKorean
    /\ repo_files = <<FileA, FileB>>
    /\ docs_in_progress = <<>>
    /\ pc = "idle"
    /\ content = <<>>
    /\ to_translate = <<>>
    /\ translated = <<>>
    /\ fs = <<>>
    /\ translated_doc = <<>>
    /\ file_path = FileA
    /\ force_retranslate = FALSE
    /\ llm_calls = 0
    /\ fetches = 0
    /\ translation_result \in
           [{FileA, FileB} -> {NoFile, StoredFile(<<NL>>), StoredFile(ExpectedKoreanDoc)}]
    /\ step = "welcome"
    /\ target_language = "ko"
    /\ k_files = DefaultKFiles
    /\ files_to_translate = <<>>
    /\ current_file_content = <<>>
    /\ persistent_settings = EmptySettings
    /\ pr_request = NoRequest
    /\ ServicesIdle

SpecChat == InitChat /\ [][NextChat]_vars

\* translate_docs has returned a document it translated, or has raised
RequestOver == pc \in {"done", "failed"}

\* C15 as stated: a translate_docs request that does not use a stored
\* translation invokes llm_translate exactly once.
C15_ExactlyOneCall ==
    /\ llm_calls <= 1
    /\ RequestOver => llm_calls = 1

\* C15 amended: a translate_docs request invokes llm_translate at most once,
\* and never a second time after a failed call; the call has been made
\* whenever the request reaches fill_scaffold or returns a document it
\* translated, and it has not been made before the prompt is ready nor when
\* the stored translation is returned.  (A request that raises before step
\* 3 has made no call.)
C15_AtMostOneCall ==
    /\ llm_calls <= 1
    /\ pc \in {"fill_scaffold", "done"} => llm_calls = 1
    /\ pc \in {"get_content", "preprocess", "llm_translate", "loaded"} => llm_calls = 0
    /\ (pc = "failed" /\ llm_calls = 1) => (fs = <<>> /\ translated = <<>>)

\* C15 witness: the one call failed and the request is over
C15_Witness ==
    /\ pc = "failed"
    /\ llm_calls = 1
    /\ fetches = 1
    /\ to_translate = ExpectedToTranslate

\* C16: when the LLM call fails during a translation job, translate_docs
\* raises without calling fill_scaffold, and start_translation_process
\* writes no file under translation_result/ and leaves
\* state.current_file_content as it was: no step of a request before the
\* storing step changes either, the failing step leaves the request without
\* a fill_scaffold result, and nothing is stored after the failure.
C16_AbortWithoutPersistence ==
    [][/\ (pc \notin {"idle", "persisted", "failed"} /\ pc' # "persisted") =>
              /\ translation_result' = translation_result
              /\ current_file_content' = current_file_content
       /\ (pc = "llm_translate" /\ pc' = "failed") =>
              /\ fs' = <<>>
              /\ translated_doc' = <<>>
       /\ pc = "failed" =>
              /\ pc' \in {"failed", "get_content"}
              /\ translation_result' = translation_result]_vars

\* C16 witness: a forced retranslation of a file that has a stored
\* translation and a translation in the state fails at the LLM call, and
\* both are as they were
C16_Witness ==
    /\ pc = "failed"
    /\ llm_calls = 1
    /\ force_retranslate
    /\ fs = <<>>
    /\ current_file_content = ExpectedKoreanDoc
    /\ translation_result[file_path] = StoredFile(ExpectedKoreanDoc)

\* C18: after any restart of the chat workflow, through restart_handler or
\* through a chat message with the word restart, state.persistent_settings
\* equals its value before the restart, and the transient state is reset
\* (step = 'welcome', no files, no translation).
C18_SettingsSurviveRestart ==
    [][(RestartHandler \/ \E message \in Messages : RestartByMessage(message)) =>
           /\ persistent_settings' = persistent_settings
           /\ step' = "welcome"
           /\ files_to_translate' = <<>>
           /\ current_file_content' = <<>>]_vars

(***************************************************************************)
(* File search: every repository tree of at most MaxRepoFiles paths and    *)
(* every list of documents in progress, searched with every top_k up to    *)
(* MaxTopK.                                                                *)
(***************************************************************************)
MaxRepoFiles == 3

FileC == EnDocsPath \o <<"c", ".md">>

\* Three English documents, the Korean translation of the first, a picture
\* among the English documents and a file outside docs
TreePaths ==
    {FileA, FileB, FileC, <<"docs", "source", "ko", "a", ".md">>,
     EnDocsPath \o <<"d", ".png">>, <<"README", ".md">>}

\* The lists of at most n members of S
RECURSIVE ListsOf(_, _)
ListsOf(S, n) ==
    IF n = 0 THEN {<<>>}
    ELSE LET shorter == ListsOf(S, n - 1)
         IN  shorter \cup {Append(l, x) : l \in shorter, x \in S}

InitSearch ==
    /\ repo_files \in {l \in ListsOf(TreePaths, MaxRepoFiles) :
                          \A i, j \in 1..Len(l) : l[i] = l[j] => i = j}
    /\ docs_in_progress \in {<<>>, <<FileA>>, <<FileB>>, <<FileB, FileA>>}
    /\ remote = DocLicensed
    /\ reply = ReplyKorean
    /\ pc = "idle"
    /\ content = <<>>
    /\ to_translate = <<>>
    /\ translated = <<>>
    /\ fs = <<>>
    /\ translated_doc = <<>>
    /\ file_path = FileA
    /\ force_retranslate = FALSE
    /\ llm_calls = 0
    /\ fetches = 0
    /\ translation_result = [f \in {FileA, FileB} |-> NoFile]
    /\ step = "welcome"
    /\ target_language = "ko"
    /\ k_files = DefaultKFiles
    /\ files_to_translate = <<>>
    /\ current_file_content = <<>>
    /\ persistent_settings = EmptySettings
    /\ pr_request = NoRequest
    /\ ServicesIdle

NextSearch ==
    \/ \E lang \in Langs, k \in 1..MaxTopK : ProcessFileSearchHandler(lang, k)
    \/ \E lang \in Langs, k \in 1..MaxTopK : ProcessFileSearchFails(lang, k)

SpecSearch == InitSearch /\ [][NextSearch]_vars

\* The English documents of the tree that miss a translation into lang and
\* are not named by an open translation PR, in tree order
OpenTargets(lang) ==
    SelectSeq(repo_files,
              LAMBDA f : /\ Len(f) > 3
                         /\ <<f[1], f[2], f[3]>> = <<"docs", "source", "en">>
                         /\ f[Len(f)] = ".md"
                         /\ \A i \in 1..Len(repo_files) :
                               repo_files[i] # <<"docs", "source", lang>> \o SubSeq(f, 4, Len(f))
                         /\ \A i \in 1..Len(docs_in_progress) :
                               docs_in_progress[i] # f)

\* C19: report_translation_target_files(project, lang, top_k) returns the
\* first top_k files that miss a translation and are not named by an open
\* translation PR: no returned file is in progress, at most top_k files are
\* returned, and fewer than top_k only when fewer than top_k such files
\* exist in the repository.
C19_TopKTargets ==
    [][(\E lang \in Langs, k \in 1..MaxTopK : ProcessFileSearchHandler(lang, k)) =>
           LET targets == OpenTargets(target_language')
           IN  /\ Len(files_to_translate') <= k_files'
               /\ \A i \in 1..Len(files_to_translate') :
                     ~InList(files_to_translate'[i], docs_in_progress)
               /\ Len(files_to_translate') < k_files' => Len(targets) < k_files'
               /\ files_to_translate' =
                     SubSeq(targets, 1, Min(k_files', Len(targets)))]_vars

\* C17: for every document D, T = preprocess_content(D) and every translated
\* text, the document fill_scaffold returns contains no unsubstituted or
\* partially substituted placeholder token '$hf_i18n_placeholder...'.
C17_CompleteSubstitution ==
    pc = "done" => find(translated_doc, PlaceholderToken) = -1

\* force_retranslate is off and the stored file of the request exists and
\* holds more than whitespace
StoredUsable ==
    /\ ~force_retranslate
    /\ translation_result[file_path].exists
    /\ \E k \in 1..Len(translation_result[file_path].text) :
          translation_result[file_path].text[k] \notin Whitespace

\* C20 as stated: with force_retranslate off and a non-blank stored
\* translation, translate_docs returns the stored content without a fetch
\* and without an LLM call; otherwise it always fetches the document and
\* calls the LLM.
C20_AlwaysTranslates ==
    /\ pc = "loaded" =>
          /\ StoredUsable
          /\ translated_doc = translation_result[file_path].text
          /\ fetches = 0
          /\ llm_calls = 0
    /\ pc \in {"preprocess", "llm_translate", "fill_scaffold", "done"} =>
          ~StoredUsable
    /\ RequestOver => (fetches = 1 /\ llm_calls = 1)

\* C20 amended: with force_retranslate off and a non-blank stored
\* translation, translate_docs returns the stored content without a fetch
\* and without an LLM call; otherwise it always calls get_content, and it
\* calls the LLM, once, exactly when the fetch succeeded and the language
\* code is 'ko' (a failed fetch, or another language code, ends the request
\* without an LLM call).
C20_StoredReuse ==
    /\ [](/\ pc = "loaded" =>
                /\ StoredUsable
                /\ translated_doc = translation_result[file_path].text
                /\ fetches = 0
                /\ llm_calls = 0
          /\ pc \in {"preprocess", "llm_translate", "fill_scaffold", "done"} =>
                (~StoredUsable /\ fetches = 1)
          /\ pc = "failed" => fetches = 1
          /\ pc = "done" => llm_calls = 1)
    /\ [][/\ (pc = "get_content" /\ pc' = "failed") => llm_calls' = 0
          /\ (pc = "llm_translate" /\ pc' # "llm_translate") =>
                (llm_calls' = 1 <=> target_language = "ko")]_vars

\* C20 witness: the stored translation of the file has been returned, and
\* nothing was fetched or translated
C20_Witness ==
    /\ pc = "loaded"
    /\ ~force_retranslate
    /\ translated_doc = ExpectedKoreanDoc
    /\ fetches = 0
    /\ content = <<>>

\* The triples of the reconstructed text with every title as the LLM wrote
\* it, joined
Deanchored ==
    Concat([j \in 1..Len(fs.translated_divided) |->
               IF j % 3 = 2 THEN fs.titles[(j + 1) \div 3]
               ELSE fs.translated_divided[j]])

\* C25: in fill_scaffold the reconstructed translated text differs from the
\* LLM's translated text only by the appended anchors: every emitted title
\* is the translated title, alone or followed by a space and its anchor, and
\* without the anchors the reconstructed text is the translated text (text
\* before the first header and text without any header included).
C25_LosslessReconstruction ==
    pc = "done" =>
        /\ fs.reconstructed_translated = Concat(fs.translated_divided)
        /\ \A i \in 1..Len(fs.titles) :
              EmittedTitle(i) \in {fs.titles[i],
                                   fs.titles[i] \o <<" ">> \o fs.anchors[i]}
        /\ Deanchored = translated

\* C26: at the moment make_scaffold processes section i, the text of the
\* section occurs in the current scaffold, so every replace call substitutes
\* one occurrence and every section gets its placeholder.
C26_SectionsLocatable ==
    pc = "done" =>
        /\ Len(fs.steps) = Len(fs.original_sections)
        /\ \A i \in 1..Len(fs.steps) :
              /\ fs.steps[i].found
              /\ Len(fs.steps[i].consumed) = Len(fs.original_sections[i])

\* C26 witness: a document with a license header, blank lines that
\* preprocess_content collapsed, and two sections or more, all of them found
C26_Witness ==
    /\ pc = "done"
    /\ find(content, <<"#">>) > 0
    /\ Len(to_translate) < Len(content) - find(content, <<"#">>)
    /\ Len(fs.steps) >= 2
    /\ \A i \in 1..Len(fs.steps) : fs.steps[i].found

\* C29: in fill_scaffold, after the pad/truncate step the number of
\* translated sections equals the placeholder count, for every document and
\* every translated text, and the 'Section count mismatch' text is never
\* returned.
C29_MismatchUnreachable ==
    pc = "done" =>
        /\ Len(fs.translated_sections) = count(fs.scaffold, PlaceholderToken)
        /\ ~fs.mismatch
        /\ \A e, g \in 0..(Len(fs.blocks) + Len(fs.original_sections)) :
              translated_doc # MismatchMessage(e, g)

\* C29 witness: the translated text had more blocks than the scaffold has
\* placeholders, and the extra blocks were cut
C29_Witness ==
    /\ pc = "done"
    /\ fs.placeholder_count > 0
    /\ Len(fs.blocks) > fs.placeholder_count
    /\ Len(fs.translated_sections) = fs.placeholder_count

\* C30: translate_docs calls the LLM for the language code 'ko' only; for
\* another code, when no stored translation is reused, the request fails
\* after the document was fetched and before the LLM is called: no LLM call
\* is made and no document is returned.
C30_KoreanOnly ==
    /\ [](pc \in {"fill_scaffold", "done"} => target_language = "ko")
    /\ [][/\ llm_calls' > llm_calls => target_language = "ko"
          /\ (pc = "llm_translate" /\ target_language # "ko" /\ pc' # pc) =>
                /\ pc' = "failed"
                /\ content = remote
                /\ fetches' = 1
                /\ llm_calls' = 0
                /\ translated_doc' = <<>>]_vars

\* C30 witness: a request for Japanese has failed after the fetch, without
\* an LLM call
C30_Witness ==
    /\ pc = "failed"
    /\ target_language = "ja"
    /\ content = DocLicensed
    /\ to_translate = ExpectedToTranslate
    /\ fetches = 1
    /\ llm_calls = 0
    /\ translated_doc = <<>>

(***************************************************************************)
(* The chat workflow up to the pull request: file search, translation,     *)
(* restart and approve_handler.                                            *)
(***************************************************************************)

\* approve_handler, lines 525-533: a part of the GitHub configuration misses
MissingConfig(owner, repo) ==
    \/ persistent_settings.github_config.token = ""
    \/ owner = ""
    \/ repo = ""

\* approve_handler, lines 543-551: the reference PR URL after the argument
\* was stored
ReferencePrUrl(reference_pr_url) ==
    IF reference_pr_url # "" THEN reference_pr_url
    ELSE persistent_settings.github_config.reference_pr_url

\* approve_handler; found_url is what the agent's search for a reference PR
\* gives when no URL is configured ("" when the search fails)
ApproveHandler(owner, repo, reference_pr_url, found_url) ==
    /\ Idle
    /\ step' = "create_github_pr"
    /\ IF MissingConfig(owner, repo)
       THEN UNCHANGED <<persistent_settings, pr_request, services>>
       ELSE /\ persistent_settings' =
                   [persistent_settings EXCEPT !.github_config.reference_pr_url =
                        IF ReferencePrUrl(reference_pr_url) # ""
                        THEN ReferencePrUrl(reference_pr_url)
                        ELSE found_url]
            /\ pr_request' =
                   IF /\ ReferencePrUrl(reference_pr_url) # "" \/ found_url # ""
                      /\ files_to_translate # <<>>
                      /\ current_file_content # <<>>
                   THEN [filepath           |-> files_to_translate[1],
                         translated_content |-> current_file_content]
                   ELSE pr_request
    /\ UNCHANGED <<host, pc, locals, request, translation_result,
                   target_language, k_files, files_to_translate,
                   current_file_content, services>>

NextApprove ==
    \/ \E k \in 1..MaxTopK : ProcessFileSearchHandler("ko", k)
    \/ \E token \in {"", "ghp"} :
          UpdatePersistentConfig("Anthropic", "key", "", token, "owner", "repo", "")
    \/ \E file \in {FileA, FileB}, force \in BOOLEAN :
          StartTranslateHandler(file, force)
    \/ RestartHandler
    \/ \E owner \in {"", "owner"}, url \in {"", "pr"}, found_url \in {"", "found"} :
          ApproveHandler(owner, "repo", url, found_url)
    \/ LoadStored
    \/ Persist
    \/ Next

SpecApprove == InitChat /\ [][NextApprove]_vars

\* C27: whenever approve_handler calls generate_github_pr, the file path is
\* state.files_to_translate[0] and the translated content it submits is the
\* result of the most recent successful translation of that file, which is
\* the document stored for that file under translation_result/; a
\* translation made for one file is never submitted under the path of
\* another file.
C27_NoCrossJobLeakage ==
    [][pr_request' # pr_request =>
          /\ files_to_translate # <<>>
          /\ pr_request'.filepath = files_to_translate[1]
          /\ translation_result[pr_request'.filepath] =
                 StoredFile(pr_request'.translated_content)]_vars

(***************************************************************************)
(* The PR agent: run_translation_pr_workflow of pr_generator/agent.py.     *)
(* GitHub is the environment: every call of its API succeeds or fails.     *)
(***************************************************************************)

\* s.startswith(prefix)
StartsWith(s, prefix) == OccursAt(s, prefix, 1)

\* sub in s
Contains(s, sub) == find(s, sub) # -1

\* s.split(sep)[-1]
LastPart(s, sep) == split(s, sep)[Len(split(s, sep))]

\* The exceptions a call of the GitHub client raises: a GithubException
\* with its status and message, or another exception with its text
GithubExceptions ==
    {[github |-> TRUE, status |-> 422, message |-> <<"R", "e", "f", "e", "r", "e", "n", "c", "e", " ", "a", "l", "r", "e", "a",  "d", "y", " ", "e", "x", "i", "s", "t", "s">>],
     [github |-> TRUE, status |-> 422, message |-> <<"V", "a", "l", "i", "d", "a", "t", "i", "o", "n", " ", "F", "a", "i", "l",  "e", "d">>],
     [github |-> TRUE, status |-> 404, message |-> <<"N", "o", "t", " ", "F", "o", "u", "n", "d">>],
     [github |-> TRUE, status |-> 500, message |-> <<"S", "e", "r", "v", "e", "r", " ", "E", "r", "r", "o", "r">>],
     [github |-> FALSE, status |-> 0, message |-> <<"t", "i", "m", "e", "d", " ", "o", "u", "t">>]}

\* _handle_github_error
HandleGithubError(e, operation) ==
    IF e.github
    THEN operation \o <<" ", "f", "a", "i", "l", "e", "d", ":", " ">> \o IntToStr(e.status) \o <<" ">> \o e.message
    ELSE <<"U", "n", "e", "x", "p", "e", "c", "t", "e", "d", " ", "e", "r", "r", "o",  "r", " ", "d", "u", "r", "i", "n", "g", " ">> \o operation \o <<":", " ">> \o e.message

\* generate_branch_name_from_reference and the target path, for the file
\* docs/source/en/a.md and the language ko
BranchName == <<"k", "o", "-", "a", ".", "m", "d">>

TargetFilepath == <<"d", "o", "c", "s", "/", "s", "o", "u", "r", "c", "e", "/", "k", "o", "/",  "a", ".", "m", "d">>

PrUrl == <<"h", "t", "t", "p", "s", ":", "/", "/", "g", "i", "t", "h", "u", "b", ".",  "c", "o", "m", "/", "h", "u", "g", "g", "i", "n", "g", "f", "a", "c", "e",  "/", "t", "r", "a", "n", "s", "f", "o", "r", "m", "e", "r", "s", "/", "p",  "u", "l", "l", "/", "1">>

\* What a call of the GitHub API does: "ok", "odd" (an answer of another
\* type than expected), "exists" (the thing is there already), or an
\* exception
ApiOutcomes == {[kind |-> "ok"], [kind |-> "odd"]} \cup {[kind |-> "raise", e |-> e] : e \in GithubExceptions}

\* create_branch: the text returned for an outcome of repo.create_git_ref
create_branch(outcome) ==
    IF outcome.kind = "ok"
    THEN <<"S", "U", "C", "C", "E", "S", "S", ":", " ", "B", "r", "a", "n", "c", "h",  " ", "'">> \o BranchName \o <<"'", " ", "c", "r", "e", "a", "t", "e", "d", " ", "s", "u", "c", "c", "e",  "s", "s", "f", "u", "l", "l", "y", " ", "(", "r", "e", "f", ":", " ", "r",  "e", "f", "s", "/", "h", "e", "a", "d", "s", "/", "k", "o", "-", "a", ".",  "m", "d", ")">>
    ELSE IF outcome.kind = "odd"
    THEN <<"E", "R", "R", "O", "R", ":", " ", "B", "r", "a", "n", "c", "h", " ", "'">> \o BranchName \o <<"'", " ", "c", "r", "e", "a", "t", "i", "o", "n", " ", "f", "a", "i", "l",  "e", "d", ".", " ", "P", "l", "e", "a", "s", "e", " ", "c", "h", "e", "c",  "k", " ", "A", "P", "I", " ", "r", "e", "s", "p", "o", "n", "s", "e", ".">>
    ELSE IF /\ outcome.e.github
            /\ outcome.e.status = 422
            /\ Contains(outcome.e.message, <<"R", "e", "f", "e", "r", "e", "n", "c", "e", " ", "a", "l", "r", "e", "a",  "d", "y", " ", "e", "x", "i", "s", "t", "s">>)
    THEN <<"W", "A", "R", "N", "I", "N", "G", ":", " ", "B", "r", "a", "n", "c", "h",  " ", "'">> \o BranchName \o <<"'", " ", "a", "l", "r", "e", "a", "d", "y", " ", "e", "x", "i", "s", "t",  "s", ".">>
    ELSE HandleGithubError(outcome.e, <<"b", "r", "a", "n", "c", "h", " ", "c", "r", "e", "a", "t", "i", "o", "n">>)

\* Whether the branch exists after create_branch with this outcome
BranchThere(outcome) ==
    \/ outcome.kind = "ok"
    \/ /\ outcome.kind = "raise"
       /\ outcome.e.github
       /\ outcome.e.status = 422
       /\ Contains(outcome.e.message, <<"R", "e", "f", "e", "r", "e", "n", "c", "e", " ", "a", "l", "r", "e", "a",  "d", "y", " ", "e", "x", "i", "s", "t", "s">>)

\* create_or_update_file without sha_blob: the text returned when
\* repo.create_file has the outcome create and, after a 422, get_contents
\* and repo.update_file together have the outcome update
create_or_update_file(create, update) ==
    IF create.kind # "raise"
    THEN <<"S", "U", "C", "C", "E", "S", "S", ":", " ", "F", "i", "l", "e", " ", "c",  "r", "e", "a", "t", "e", "d", " ", "-", " ">> \o TargetFilepath
    ELSE IF create.e.github /\ create.e.status = 422 /\ update.kind # "raise"
    THEN <<"S", "U", "C", "C", "E", "S", "S", ":", " ", "F", "i", "l", "e", " ", "u",  "p", "d", "a", "t", "e", "d", " ", "-", " ">> \o TargetFilepath
    ELSE <<"E", "R", "R", "O", "R", ":", " ", "F", "i", "l", "e", " ", "p", "r", "o",  "c", "e", "s", "s", "i", "n", "g", " ", "f", "a", "i", "l", "e", "d", " ",  "-", " ">> \o TargetFilepath

\* Whether the file was committed by create_or_update_file
Committed(create, update) ==
    \/ create.kind # "raise"
    \/ create.e.github /\ create.e.status = 422 /\ update.kind # "raise"

\* What create_pull_request meets: an open PR for the same head and base,
\* a missing branch, head and base at the same commit, or the outcome of
\* repo.create_pull
PullOutcomes ==
    {[kind |-> "existing"], [kind |-> "no_branch"], [kind |-> "same_commit"], [kind |-> "ok"]}
        \cup {[kind |-> "raise", e |-> e] : e \in GithubExceptions}

\* The head of the pull request: the branch of the fork
HeadRef == <<"o", "w", "n", "e", "r", ":", "k", "o", "-", "a", ".", "m", "d">>

\* create_pull_request, for the base branch main
create_pull_request(outcome) ==
    CASE outcome.kind = "existing" ->
             <<"E", "R", "R", "O", "R", ":", " ">> \o <<"E", "x", "i", "s", "t", "i", "n", "g", " ", "P", "R", " ", "f", "o", "u",  "n", "d", ":", " ">> \o PrUrl
      [] outcome.kind = "no_branch" ->
             <<"E", "R", "R", "O", "R", ":", " ", "B", "r", "a", "n", "c", "h", " ", "n",  "o", "t", " ", "f", "o", "u", "n", "d", ".", " ", "h", "e", "a", "d", ":",  " ">> \o HeadRef \o <<",", " ", "b", "a", "s", "e", ":", " ", "m", "a", "i", "n">>
      [] outcome.kind = "same_commit" ->
             <<"E", "R", "R", "O", "R", ":", " ", "h", "e", "a", "d", " ", "b", "r", "a",  "n", "c", "h", " ", "(">> \o HeadRef \o <<")", " ", "a", "n", "d", " ", "b", "a", "s", "e", " ", "b", "r", "a", "n",  "c", "h", " ", "(", "m", "a", "i", "n", ")", " ", "p", "o", "i", "n", "t",  " ", "t", "o", " ", "t", "h", "e", " ", "s", "a", "m", "e", " ", "c", "o",  "m", "m", "i", "t", ".", " ", "N", "o", " ", "c", "h", "a", "n", "g", "e",  "s", " ", "t", "o", " ", "m", "e", "r", "g", "e", ".">>
      [] outcome.kind = "ok" ->
             <<"P", "R", " ", "c", "r", "e", "a", "t", "i", "o", "n", " ", "s", "u", "c",  "c", "e", "s", "s", "f", "u", "l", ":", " ">> \o PrUrl
      [] outcome.kind = "raise" ->
             IF outcome.e.github /\ outcome.e.status = 422
             THEN <<"E", "R", "R", "O", "R", ":", " ", "P", "R", " ", "c", "r", "e", "a", "t",  "i", "o", "n", " ", "f", "a", "i", "l", "e", "d", " ", "(", "4", "2", "2",  ")", ":", " ">> \o outcome.e.message \o <<".", " ">>
             ELSE HandleGithubError(outcome.e, <<"P", "R", " ", "c", "r", "e", "a", "t", "i", "o", "n">>)

\* One call of GitHub made by the workflow: the operation, the text or the
\* error it gave, and whether it did what it is for
Call(op, result, done) == [op |-> op, result |-> result, done |-> done]

\* run_translation_pr_workflow is called
RunWorkflow ==
    /\ pr_pc = "idle"
    /\ pr_pc' = "analyze"
    /\ UNCHANGED <<github_calls, workflow_result>>
    /\ UNCHANGED <<host, pc, locals, request, translation_result, chat, reviewer, toctree>>

\* lines 430-436: the reference PR is analysed; analyze_reference_pr gives
\* a dictionary with the key error for a bad URL or a failing call
AnalyzeReferencePr(ok) ==
    /\ pr_pc = "analyze"
    /\ github_calls' = Append(github_calls, Call("analyze_reference_pr", <<>>, ok))
    /\ IF ok
       THEN pr_pc' = "main_sha" /\ UNCHANGED workflow_result
       ELSE /\ pr_pc' = "returned"
            /\ workflow_result' = [status |-> "error"]
    /\ UNCHANGED <<host, pc, locals, request, translation_result, chat, reviewer, toctree>>

\* lines 447-450: the SHA of the base branch is read from the upstream
\* repository; an exception ends the workflow in the handler of line 543
GetMainSha(ok) ==
    /\ pr_pc = "main_sha"
    /\ github_calls' = Append(github_calls, Call("get_branch", <<>>, ok))
    /\ IF ok
       THEN pr_pc' = "branch" /\ UNCHANGED workflow_result
       ELSE /\ pr_pc' = "returned"
            /\ workflow_result' = [status |-> "error"]
    /\ UNCHANGED <<host, pc, locals, request, translation_result, chat, reviewer, toctree>>

\* lines 452-472: the branch is created in the fork
CreateBranch(outcome) ==
    LET branch_result == create_branch(outcome)
    IN  /\ pr_pc = "branch"
        /\ github_calls' = Append(github_calls,
               Call("create_branch", branch_result, BranchThere(outcome)))
        /\ IF StartsWith(branch_result, <<"E", "R", "R", "O", "R">>)
           THEN /\ pr_pc' = "returned"
                /\ workflow_result' = [status |-> "error", branch |-> BranchName,
                                       error_details |-> branch_result]
           ELSE pr_pc' = "save" /\ UNCHANGED workflow_result
        /\ UNCHANGED <<host, pc, locals, request, translation_result, chat, reviewer, toctree>>

\* lines 474-499: the translated file is saved on the branch
SaveFile(create, update) ==
    LET file_result == create_or_update_file(create, update)
    IN  /\ pr_pc = "save"
        /\ github_calls' = Append(github_calls,
               Call("create_or_update_file", file_result, Committed(create, update)))
        /\ IF ~StartsWith(file_result, <<"S", "U", "C", "C", "E", "S", "S">>)
           THEN /\ pr_pc' = "returned"
                /\ workflow_result' = [status |-> "error", branch |-> BranchName,
                                       file_path |-> TargetFilepath,
                                       error_details |-> file_result]
           ELSE pr_pc' = "pull" /\ UNCHANGED workflow_result
        /\ UNCHANGED <<host, pc, locals, request, translation_result, chat, reviewer, toctree>>

\* generate_github_pr, lines 257-318: the message shown for the result of
\* the workflow
PrMessage(result) ==
    IF result.status = "success" THEN "GitHub PR Creation Successful"
    ELSE IF result.status = "partial_success"
    THEN IF /\ "error_details" \in DOMAIN result
            /\ Contains(result.error_details, <<"E", "x", "i", "s", "t", "i", "n", "g", " ", "P", "R", " ", "f", "o", "u",  "n", "d">>)
         THEN "Translation Updated Successfully"
         ELSE "Partial Success"
    ELSE "GitHub PR Creation Failed"

\* Mutant of Classify: every result that is not an ERROR text counts as a
\* created pull request
ClassifyNotError(pr_result) ==
    IF StartsWith(pr_result, <<"E", "R", "R", "O", "R">>)
    THEN [status |-> "partial_success", branch |-> BranchName,
          file_path |-> TargetFilepath, error_details |-> pr_result]
    ELSE [status |-> "success", branch |-> BranchName,
          file_path |-> TargetFilepath, pr_url |-> LastPart(pr_result, <<":", " ">>)]

\* lines 519-541: the result of create_pull_request is classified
Classify(pr_result) ==
    IF StartsWith(pr_result, <<"E", "R", "R", "O", "R">>)
    THEN [status |-> "partial_success", branch |-> BranchName,
          file_path |-> TargetFilepath, error_details |-> pr_result]
    ELSE IF Contains(pr_result, <<"s", "u", "c", "c", "e", "s", "s", "f", "u", "l">>) /\ Contains(pr_result, <<"h", "t", "t", "p">>)
    THEN [status |-> "success", branch |-> BranchName,
          file_path |-> TargetFilepath, pr_url |-> LastPart(pr_result, <<":", " ">>)]
    ELSE [status |-> "partial_success", branch |-> BranchName,
          file_path |-> TargetFilepath]

\* lines 503-541: the pull request is created from the fork to the upstream
\* repository
CreatePullRequest(outcome) ==
    LET pr_result == create_pull_request(outcome)
    IN  /\ pr_pc = "pull"
        /\ github_calls' = Append(github_calls,
               Call("create_pull_request", pr_result, outcome.kind = "ok"))
        /\ workflow_result' = Classify(pr_result)
        /\ pr_pc' = "returned"
        /\ UNCHANGED <<host, pc, locals, request, translation_result, chat, reviewer, toctree>>

NextPr ==
    \/ RunWorkflow
    \/ \E ok \in BOOLEAN : AnalyzeReferencePr(ok)
    \/ \E ok \in BOOLEAN : GetMainSha(ok)
    \/ \E outcome \in ApiOutcomes : CreateBranch(outcome)
    \/ \E create \in ApiOutcomes, update \in ApiOutcomes : SaveFile(create, update)
    \/ \E outcome \in PullOutcomes : CreatePullRequest(outcome)

\* The chat workflow at rest, with a translation of FileA made
Quiet ==
    /\ remote = DocLicensed
    /\ reply = ReplyKorean
    /\ repo_files = <<FileA>>
    /\ docs_in_progress = <<>>
    /\ pc = "persisted"
    /\ content = <<>>
    /\ to_translate = <<>>
    /\ translated = <<>>
    /\ fs = <<>>
    /\ translated_doc = ExpectedKoreanDoc
    /\ file_path = FileA
    /\ force_retranslate = FALSE
    /\ llm_calls = 0
    /\ fetches = 0
    /\ translation_result = [f \in {FileA, FileB} |->
                                IF f = FileA THEN StoredFile(ExpectedKoreanDoc) ELSE NoFile]
    /\ step = "create_github_pr"
    /\ target_language = "ko"
    /\ k_files = DefaultKFiles
    /\ files_to_translate = <<FileA>>
    /\ current_file_content = ExpectedKoreanDoc
    /\ persistent_settings = [EmptySettings EXCEPT !.anthropic_api_key = "key"]
    /\ pr_request = [filepath |-> FileA, translated_content |-> ExpectedKoreanDoc]

InitPr == Quiet /\ PrIdle /\ ReviewIdle /\ TocIdle

SpecPr == InitPr /\ [][NextPr]_vars

\* The steps of the workflow, in the order of the code
WorkflowSteps ==
    <<"analyze_reference_pr", "get_branch", "create_branch",
      "create_or_update_file", "create_pull_request">>

\* The calls of an operation made so far
CallsOf(op) == {i \in 1..Len(github_calls) : github_calls[i].op = op}

\* C21: run_translation_pr_workflow runs its steps in the order analyse
\* reference PR, create branch, save file, create pull request, and stops
\* at the first failing step: a step is run only when the step before it
\* did what it is for; the file is saved only if create_branch did not
\* return an ERROR text (an existing branch is a WARNING, and the workflow
\* continues), and the pull request is attempted only after the file save
\* returned SUCCESS.
C21_StepOrdering ==
    /\ Len(github_calls) <= Len(WorkflowSteps)
    /\ \A i \in 1..Len(github_calls) :
          /\ github_calls[i].op = WorkflowSteps[i]
          /\ i > 1 => github_calls[i - 1].done
          /\ github_calls[i].op = "create_or_update_file" =>
                ~StartsWith(github_calls[i - 1].result, <<"E", "R", "R", "O", "R">>)
          /\ github_calls[i].op = "create_pull_request" =>
                StartsWith(github_calls[i - 1].result,
                           <<"S", "U", "C", "C", "E", "S", "S">>)

\* A pull request was created by the workflow
PullCreated == \E i \in CallsOf("create_pull_request") : github_calls[i].done

\* The translated file was committed by the workflow
FileCommitted == \E i \in CallsOf("create_or_update_file") : github_calls[i].done

\* C22: run_translation_pr_workflow always returns, whatever GitHub
\* answers, with a status that is success only if a pull request was
\* created (and then with its URL), partial_success only if the file was
\* committed and no pull request was created (an open pull request for the
\* same head and base included), and error in every other case, where no
\* pull request was created; generate_github_pr reports a created pull
\* request for the status success only.
C22_OutcomeClassification ==
    /\ pr_pc \in {"idle", "analyze", "main_sha", "branch", "save", "pull", "returned"}
    /\ pr_pc # "returned" => workflow_result = [status |-> "none"] /\ ~PullCreated
    /\ pr_pc = "returned" =>
          /\ workflow_result.status \in {"success", "partial_success", "error"}
          /\ workflow_result.status = "success" <=> PullCreated
          /\ workflow_result.status = "success" => workflow_result.pr_url = PrUrl
          /\ workflow_result.status = "partial_success" <=> FileCommitted /\ ~PullCreated
          /\ workflow_result.status = "error" <=> ~FileCommitted
          /\ PrMessage(workflow_result) = "GitHub PR Creation Successful" <=> PullCreated
          /\ \A i \in CallsOf("create_pull_request") :
                Contains(github_calls[i].result,
                         <<"E", "x", "i", "s", "t", "i", "n", "g", " ", "P", "R">>) =>
                    /\ workflow_result.status = "partial_success"
                    /\ PrMessage(workflow_result) = "Translation Updated Successfully"

\* C22 witness: the file was committed, create_pull_request met GitHub's
\* server error, and the workflow returned partial_success
C22_Witness ==
    /\ pr_pc = "returned"
    /\ FileCommitted
    /\ \E i \in CallsOf("create_pull_request") :
          /\ ~github_calls[i].done
          /\ ~StartsWith(github_calls[i].result, <<"E", "R", "R", "O", "R">>)
    /\ workflow_result.status = "partial_success"
    /\ PrMessage(workflow_result) = "Partial Success"

(***************************************************************************)
(* The translation reviewer: parse_review_response and the submission of   *)
(* the review, services.py of hf-translation-reviewer.                     *)
(***************************************************************************)

\* The values json.loads gives, each with its Python type
JStr(s) == [t |-> "str", v |-> s]

JInt(n) == [t |-> "int", v |-> n]

JBool(b) == [t |-> "bool", v |-> b]

JNone == [t |-> "NoneType", v |-> 0]

JList(l) == [t |-> "list", v |-> l]

JDict(d) == [t |-> "dict", v |-> d]

\* isinstance(x, int): bool is a subclass of int
IsInstanceInt(x) == x.t \in {"int", "bool"}

\* The number a Python int or bool compares as
AsNumber(x) == IF x.t = "bool" THEN (IF x.v THEN 1 ELSE 0) ELSE x.v

\* d.get(key, default) of a dict
Get(d, key, default) == IF key \in DOMAIN d.v THEN d.v[key] ELSE default

\* str(x) for the values of the model (lists and dicts are empty ones)
PyStr(x) ==
    CASE x.t = "str" -> x.v
      [] x.t = "int" -> IF x.v < 0 THEN <<"-">> \o IntToStr(0 - x.v) ELSE IntToStr(x.v)
      [] x.t = "bool" -> IF x.v THEN <<"T", "r", "u", "e">> ELSE <<"F", "a", "l", "s", "e">>
      [] x.t = "NoneType" -> <<"N", "o", "n", "e">>
      [] x.t = "list" -> <<"[", "]">>
      [] x.t = "dict" -> <<"{", "}">>

\* lines 169-176: the first candidate that json.loads decodes to a dict;
\* a candidate that does not decode has the type "JSONDecodeError"
RECURSIVE FirstDict(_)
FirstDict(candidates) ==
    IF candidates = <<>> THEN [t |-> "nothing", v |-> 0]
    ELSE IF candidates[1].t = "dict" THEN candidates[1]
    ELSE FirstDict(Tail(candidates))

\* lines 184-188
NormalizeVerdict(verdict) ==
    IF verdict.t # "str" THEN <<"c", "o", "m", "m", "e", "n", "t">>
    ELSE IF Lower(verdict.v) \in {<<"r", "e", "q", "u", "e", "s", "t", "_", "c", "h", "a", "n", "g", "e", "s">>, <<"c", "o", "m", "m", "e", "n", "t">>, <<"a", "p", "p", "r", "o", "v", "e">>}
    THEN Lower(verdict.v)
    ELSE <<"c", "o", "m", "m", "e", "n", "t">>

\* Mutant of KeepsComment: a comment without an issue is kept
KeepsCommentWithLine(comment) ==
    /\ comment.t = "dict"
    /\ IsInstanceInt(Get(comment, "line", JNone))
    /\ AsNumber(Get(comment, "line", JNone)) > 0

\* lines 198-209: whether a comment of the response is kept
KeepsComment(comment) ==
    /\ comment.t = "dict"
    /\ IsInstanceInt(Get(comment, "line", JNone))
    /\ AsNumber(Get(comment, "line", JNone)) > 0
    /\ strip(PyStr(Get(comment, "issue", JStr(<<>>)))) # <<>>

\* lines 211-218
NormalizedComment(comment) ==
    [line           |-> Get(comment, "line", JNone),
     issue          |-> strip(PyStr(Get(comment, "issue", JStr(<<>>)))),
     suggested_edit |-> strip(PyStr(Get(comment, "suggested_edit", JStr(<<>>)))),
     context        |-> strip(PyStr(Get(comment, "context", JStr(<<>>))))]

\* lines 196-218
RECURSIVE NormalizeComments(_)
NormalizeComments(comments) ==
    IF comments = <<>> THEN <<>>
    ELSE IF KeepsComment(comments[1])
    THEN <<NormalizedComment(comments[1])>> \o NormalizeComments(Tail(comments))
    ELSE NormalizeComments(Tail(comments))

\* parse_review_response, for the text raw_response and the values its
\* JSON candidates decode to
parse_review_response(raw_response, candidates) ==
    LET parsed == FirstDict(candidates)
        summary == strip(PyStr(Get(parsed, "summary", JStr(<<>>))))
        comments == Get(parsed, "comments", JList(<<>>))
    IN  IF parsed.t = "nothing"
        THEN [verdict |-> <<"c", "o", "m", "m", "e", "n", "t">>, summary |-> strip(raw_response), comments |-> <<>>]
        ELSE [verdict  |-> NormalizeVerdict(Get(parsed, "verdict", JStr(<<"c", "o", "m", "m", "e", "n", "t">>))),
              summary  |-> IF summary = <<>> THEN strip(raw_response) ELSE summary,
              comments |-> IF comments.t = "list" THEN NormalizeComments(comments.v)
                           ELSE <<>>]

\* review_event_from_verdict
review_event_from_verdict(verdict) ==
    CASE verdict = <<"r", "e", "q", "u", "e", "s", "t", "_", "c", "h", "a", "n", "g", "e", "s">> -> "REQUEST_CHANGES"
      [] verdict = <<"a", "p", "p", "r", "o", "v", "e">> -> "APPROVE"
      [] verdict = <<"c", "o", "m", "m", "e", "n", "t">> -> "COMMENT"
      [] OTHER -> "COMMENT"

\* submit_pr_review, lines 338-346: the text of the error of a 422 answer
\* says that the pull request is the reviewer's own
OwnPullRequest(combined_error) == Contains(Lower(combined_error), <<"o", "w", "n", " ", "p", "u", "l", "l", " ", "r", "e", "q", "u", "e", "s",  "t">>)

\* submit_pr_review, line 354: the body of the fallback comment
FallbackBody(body) == <<"[", "R", "E", "Q", "U", "E", "S", "T", "_", "C", "H", "A", "N", "G", "E",  "S", " ", "(", "s", "e", "l", "f", "-", "r", "e", "v", "i", "e", "w", ")",  "]">> \o <<NL, NL>> \o strip(body)

\* One review posted: the payload, and the answer of GitHub
Post(event, body, status, message) ==
    [event |-> event, body |-> body, status |-> status, message |-> message]

\* review_and_emit_payload, lines 436-439: the raw response is parsed and
\* the event is derived from the verdict
ParseReviewResponse ==
    LET parsed == parse_review_response(llm_review.raw, llm_review.candidates)
    IN  /\ review_pc = "idle"
        /\ review' = [verdict  |-> parsed.verdict,
                      summary  |-> parsed.summary,
                      comments |-> parsed.comments,
                      event    |-> review_event_from_verdict(parsed.verdict)]
        /\ review_pc' = "parsed"
        /\ UNCHANGED <<llm_review, submit_args, posts, review_outcome>>
        /\ UNCHANGED <<host, pc, locals, request, translation_result, chat, pr_agent, toctree>>

\* submit_review_to_github, lines 476-501, for the review made by
\* review_and_emit_payload: submit_pr_review is called with the event of
\* the verdict and the summary as the body
SubmitReviewToGithub(allow_self_request_changes) ==
    /\ review_pc = "parsed"
    /\ submit_args' = [event |-> review_event_from_verdict(Lower(review.verdict)),
                       body  |-> IF review.summary # <<>> THEN review.summary
                                 ELSE <<"L", "L", "M", " ", "t", "r", "a", "n", "s", "l", "a", "t", "i", "o", "n",  " ", "r", "e", "v", "i", "e", "w">>,
                       allow_self_request_changes |-> allow_self_request_changes]
    /\ review_pc' = "post"
    /\ UNCHANGED <<llm_review, review, posts, review_outcome>>
    /\ UNCHANGED <<host, pc, locals, request, translation_result, chat, pr_agent, toctree>>

\* What submit_pr_review does after the answer to its first post, lines
\* 331-369: "fallback" when the second post is to be made
AfterFirstPost(event, allow, status, message) ==
    IF status = 401 THEN [kind |-> "raised", what |-> "PermissionError"]
    ELSE IF status = 422 /\ event = "REQUEST_CHANGES" /\ OwnPullRequest(message)
    THEN IF allow THEN [kind |-> "fallback", what |-> ""]
         ELSE [kind |-> "raised", what |-> "RuntimeError"]
    ELSE IF status >= 400 THEN [kind |-> "raised", what |-> "RuntimeError"]
    ELSE [kind |-> "returned", what |-> event]

\* submit_pr_review, lines 328-369: the review is posted and GitHub answers
\* with a status and, for an error, a message
FirstPost(status, message) ==
    LET after == AfterFirstPost(submit_args.event, submit_args.allow_self_request_changes, status, message)
    IN  /\ review_pc = "post"
        /\ posts' = Append(posts, Post(submit_args.event, submit_args.body, status, message))
        /\ IF after.kind = "fallback"
           THEN review_pc' = "fallback" /\ UNCHANGED review_outcome
           ELSE review_pc' = "over" /\ review_outcome' = after
        /\ UNCHANGED <<llm_review, review, submit_args>>
        /\ UNCHANGED <<host, pc, locals, request, translation_result, chat, pr_agent, toctree>>

\* Mutant of FallbackPost: a rejected fallback comment is posted again
FallbackPostRetrying(status, message) ==
    /\ review_pc = "fallback"
    /\ posts' = Append(posts, Post("COMMENT", FallbackBody(submit_args.body), status, message))
    /\ IF status >= 400 /\ Len(posts) < 2
       THEN review_pc' = "fallback" /\ UNCHANGED review_outcome
       ELSE /\ review_pc' = "over"
            /\ review_outcome' =
                   IF status >= 400 THEN [kind |-> "raised", what |-> "RuntimeError"]
                   ELSE [kind |-> "returned", what |-> "REQUEST_CHANGES_SELF"]
    /\ UNCHANGED <<llm_review, review, submit_args>>
    /\ UNCHANGED <<host, pc, locals, request, translation_result, chat, pr_agent, toctree>>

\* submit_pr_review, lines 353-362: the review is posted again as a comment
FallbackPost(status, message) ==
    /\ review_pc = "fallback"
    /\ posts' = Append(posts, Post("COMMENT", FallbackBody(submit_args.body), status, message))
    /\ review_pc' = "over"
    /\ review_outcome' =
           IF status >= 400 THEN [kind |-> "raised", what |-> "RuntimeError"]
           ELSE [kind |-> "returned", what |-> "REQUEST_CHANGES_SELF"]
    /\ UNCHANGED <<llm_review, review, submit_args>>
    /\ UNCHANGED <<host, pc, locals, request, translation_result, chat, pr_agent, toctree>>

\* The answers of GitHub to a posted review
Statuses == {200, 401, 422, 500}

ErrorMessages ==
    {<<"V", "a", "l", "i", "d", "a", "t", "i", "o", "n", " ", "F", "a", "i", "l",  "e", "d">>,
     <<"C", "a", "n", " ", "n", "o", "t", " ", "r", "e", "q", "u", "e", "s", "t",  " ", "c", "h", "a", "n", "g", "e", "s", " ", "o", "n", " ", "y", "o", "u",  "r", " ", "o", "w", "n", " ", "p", "u", "l", "l", " ", "r", "e", "q", "u",  "e", "s", "t">>}

Answers == {<<200, <<>> >>} \cup ((Statuses \ {200}) \X ErrorMessages)

NextReview ==
    \/ ParseReviewResponse
    \/ \E allow \in BOOLEAN : SubmitReviewToGithub(allow)
    \/ \E a \in Answers : FirstPost(a[1], a[2])
    \/ \E a \in Answers : FallbackPost(a[1], a[2])

\* The lines and issues of the comments of a response
ResponseLines == {JInt(3), JInt(0), JBool(TRUE), JStr(<<"3">>)}

ResponseIssues == {JStr(<<"t", "y", "p", "o">>), JStr(<<" ">>), JNone}

\* The comments of a response: dicts with or without a line and an issue,
\* and a value that is no dict
ResponseComments ==
    {JStr(<<"t", "y", "p", "o">>)}
        \cup {JDict([line |-> l, issue |-> i]) : l \in ResponseLines, i \in ResponseIssues}
        \cup {JDict([line |-> l]) : l \in {JInt(3)}}
        \cup {JDict([issue |-> i]) : i \in {JStr(<<"t", "y", "p", "o">>)}}

MaxComments == 2

\* The verdicts of a response
ResponseVerdicts ==
    {JStr(<<"a", "p", "p", "r", "o", "v", "e">>), JStr(<<"R", "e", "q", "u", "e", "s", "t", "_", "C", "h", "a", "n", "g", "e", "s">>), JStr(<<"c", "o", "m", "m", "e", "n", "t">>), JStr(<<"r", "e", "j", "e", "c", "t">>), JInt(1)}

\* The dicts a response decodes to
ResponseDicts ==
    {JDict([verdict |-> v, comments |-> JList(c)]) :
        v \in ResponseVerdicts, c \in ListsOf(ResponseComments, MaxComments)}
        \cup {JDict([summary |-> JStr(<<"o", "k">>)]),
              JDict([verdict |-> JStr(<<"R", "e", "q", "u", "e", "s", "t", "_", "C", "h", "a", "n", "g", "e", "s">>), summary |-> JNone, comments |-> JStr(<<"t", "y", "p", "o">>)])}

\* A candidate that json.loads rejects, and one it decodes to a list
NotJson == [t |-> "JSONDecodeError", v |-> 0]

InitReview ==
    /\ Quiet /\ PrIdle /\ TocIdle
    /\ review_pc = "idle"
    /\ llm_review \in
           {[raw |-> <<" ", "n", "o", "t", " ", "j", "s", "o", "n", " ">>, candidates |-> c] :
               c \in {<<>>, <<NotJson>>, <<JList(<<>>)>>}
                       \cup {<<d>> : d \in ResponseDicts}
                       \cup {<<NotJson, JDict([verdict |-> JStr(<<"a", "p", "p", "r", "o", "v", "e">>)])>>}}
    /\ review = <<>>
    /\ submit_args = <<>>
    /\ posts = <<>>
    /\ review_outcome = [kind |-> "none"]

SpecReview == InitReview /\ [][NextReview]_vars

\* The first post was rejected with 422 for a REQUEST_CHANGES event on the
\* submitter's own pull request, and allow_self_request_changes is true
SelfReviewRejected ==
    /\ posts # <<>>
    /\ posts[1].status = 422
    /\ posts[1].event = "REQUEST_CHANGES"
    /\ OwnPullRequest(posts[1].message)
    /\ submit_args.allow_self_request_changes

\* What C23 says of the posts: one post of the review, and one more, a
\* COMMENT with the prefixed body, exactly in the self-review case
C23_Posts ==
    /\ Len(posts) \in {1, 2}
    /\ posts[1].event = submit_args.event
    /\ posts[1].body = submit_args.body
    /\ Len(posts) = 2 <=> SelfReviewRejected
    /\ Len(posts) = 2 =>
          /\ posts[2].event = "COMMENT"
          /\ StartsWith(posts[2].body, <<"[", "R", "E", "Q", "U", "E", "S", "T", "_", "C", "H", "A", "N", "G", "E",  "S", " ", "(", "s", "e", "l", "f", "-", "r", "e", "v", "i", "e", "w", ")",  "]">>)
          /\ posts[2].body = <<"[", "R", "E", "Q", "U", "E", "S", "T", "_", "C", "H", "A", "N", "G", "E",  "S", " ", "(", "s", "e", "l", "f", "-", "r", "e", "v", "i", "e", "w", ")",  "]">> \o <<NL, NL>> \o strip(submit_args.body)
    /\ ~SelfReviewRejected =>
          /\ posts[1].status >= 400 <=> review_outcome.kind = "raised"
          /\ posts[1].status < 400 <=>
                review_outcome = [kind |-> "returned", what |-> submit_args.event]

\* C23 as stated: submit_pr_review posts the review once; only when that
\* post is rejected with 422 for a REQUEST_CHANGES event on the submitter's
\* own pull request and allow_self_request_changes is true it posts once
\* more, as a COMMENT with the prefixed body, and returns the final event
\* REQUEST_CHANGES_SELF; in every other case at most one post is made and
\* any status >= 400 raises.
C23_SelfReviewFallback ==
    review_pc = "over" =>
        /\ C23_Posts
        /\ SelfReviewRejected =>
              review_outcome = [kind |-> "returned", what |-> "REQUEST_CHANGES_SELF"]

\* C23 amended: as stated, but in the self-review case the final event
\* REQUEST_CHANGES_SELF is returned when the second post is accepted, and a
\* second post answered with a status >= 400 raises; no third post is made.
C23_SelfReviewFallbackOrRaise ==
    /\ Len(posts) <= 2
    /\ review_pc = "over" =>
          /\ C23_Posts
          /\ SelfReviewRejected =>
                /\ posts[2].status < 400 <=>
                      review_outcome = [kind |-> "returned", what |-> "REQUEST_CHANGES_SELF"]
                /\ posts[2].status >= 400 <=>
                      review_outcome = [kind |-> "raised", what |-> "RuntimeError"]

\* C23 witness: the second post was made and accepted
C23_Witness ==
    /\ review_pc = "over"
    /\ SelfReviewRejected
    /\ Len(posts) = 2
    /\ posts[2].status = 200
    /\ review_outcome = [kind |-> "returned", what |-> "REQUEST_CHANGES_SELF"]

\* C24: for every raw response, parse_review_response returns a verdict
\* among request_changes, comment and approve (comment when nothing could
\* be parsed or the verdict is unknown), every comment it returns has a
\* positive integer as its line and a non-empty issue, and
\* review_event_from_verdict maps the verdict to its one event among
\* REQUEST_CHANGES, COMMENT and APPROVE.
C24_ReviewNormalisation ==
    review_pc # "idle" =>
        /\ review.verdict \in {<<"r", "e", "q", "u", "e", "s", "t", "_", "c", "h", "a", "n", "g", "e", "s">>, <<"c", "o", "m", "m", "e", "n", "t">>, <<"a", "p", "p", "r", "o", "v", "e">>}
        /\ FirstDict(llm_review.candidates).t = "nothing" => review.verdict = <<"c", "o", "m", "m", "e", "n", "t">>
        /\ \A i \in 1..Len(review.comments) :
              /\ review.comments[i].line.t = "int"
              /\ review.comments[i].line.v > 0
              /\ review.comments[i].issue # <<>>
        /\ review.event \in {"REQUEST_CHANGES", "COMMENT", "APPROVE"}
        /\ review.event = "REQUEST_CHANGES" <=> review.verdict = <<"r", "e", "q", "u", "e", "s", "t", "_", "c", "h", "a", "n", "g", "e", "s">>
        /\ review.event = "APPROVE" <=> review.verdict = <<"a", "p", "p", "r", "o", "v", "e">>

(***************************************************************************)
(* The toctree handler: add_new_toctree_entry of agent/toctree_handler.py. *)
(* A toctree is a list of sections; a section is a dict with a title and,  *)
(* maybe, the list of its entries under the key sections.                  *)
(***************************************************************************)

\* Python's None, in a list of entries
PyNone == [local |-> "None", title |-> "None"]

\* An entry of a toctree
Entry(local, title) == [local |-> local, title |-> title]

\* translate_title: the Korean title the LLM gives
TranslateTitle(en_title) == "ko:" \o en_title

\* lines 300-305: the entry of the translated file
NewEntry(local) == Entry(local, TranslateTitle(local))

\* section['sections'], the empty list when the key misses
SectionsOf(section) ==
    IF "sections" \in DOMAIN section THEN section.sections ELSE <<>>

\* The section with its sections list replaced
WithSections(section, sections) ==
    [k \in DOMAIN section \cup {"sections"} |->
        IF k = "sections" THEN sections ELSE section[k]]

RECURSIVE DropTrailingNone(_)
\* insert_at_correct_position, lines 407-409
DropTrailingNone(sections) ==
    IF sections # <<>> /\ sections[Len(sections)] = PyNone
    THEN DropTrailingNone(SubSeq(sections, 1, Len(sections) - 1))
    ELSE sections

\* insert_at_correct_position: the list ko_section['sections'] after the
\* call, for the 0-based target_index
insert_at_correct_position(sections, target_index, new_entry) ==
    LET expanded == sections \o [k \in 1..(target_index + 1 - Len(sections)) |-> PyNone]
    IN  DropTrailingNone([expanded EXCEPT ![target_index + 1] = new_entry])

RECURSIVE IndexOfLocal(_, _, _)
\* merge_subsections, lines 379-383: the 0-based index of the first entry
\* at or after i with the local, -1 when there is none
IndexOfLocal(sections, local, i) ==
    IF i >= Len(sections) THEN -1
    ELSE IF sections[i + 1].local = local THEN i
    ELSE IndexOfLocal(sections, local, i + 1)

\* merge_subsections: whether the entry was merged, and ko_section after
\* the call
merge_subsections(en_section, ko_section, local, new_entry) ==
    LET target_index == IndexOfLocal(SectionsOf(en_section), local, 0)
    IN  IF "sections" \notin DOMAIN en_section \/ target_index = -1
        THEN [merged |-> FALSE, ko_section |-> ko_section]
        ELSE [merged |-> TRUE,
              ko_section |-> WithSections(ko_section,
                  insert_at_correct_position(SectionsOf(ko_section), target_index,
                                             new_entry))]

RECURSIVE contains_target(_, _)
\* contains_target
contains_target(section, local) ==
    \E i \in 1..Len(SectionsOf(section)) :
        \/ SectionsOf(section)[i].local = local
        \/ contains_target(SectionsOf(section)[i], local)

\* find_matching_section: the 1-based index of the Korean section with the
\* English title or, if there is none, with its translation; 0 for None
find_matching_section(ko, en_title) ==
    LET exact == {i \in 1..Len(ko) : ko[i].title = en_title}
        by_translation == {i \in 1..Len(ko) : ko[i].title = TranslateTitle(en_title)}
    IN  IF exact # {} THEN CHOOSE i \in exact : \A j \in exact : i <= j
        ELSE IF by_translation # {}
        THEN CHOOSE i \in by_translation : \A j \in by_translation : i <= j
        ELSE 0

\* create_section_with_order
create_section_with_order(en_section, new_entry) ==
    [title |-> TranslateTitle(en_section.title), isExpanded |-> FALSE,
     sections |-> <<new_entry>>]

RECURSIVE merge_toctree_sections(_, _, _, _, _)
\* merge_toctree_sections, from the i-th English section on: whether the
\* entry was merged, and the Korean toctree after the call
merge_toctree_sections(en, ko, local, new_entry, i) ==
    IF i > Len(en) THEN [merged |-> FALSE, ko_toctree |-> ko]
    ELSE IF ~contains_target(en[i], local)
    THEN merge_toctree_sections(en, ko, local, new_entry, i + 1)
    ELSE LET m == find_matching_section(ko, en[i].title)
         IN  IF m = 0
             THEN [merged |-> TRUE,
                   ko_toctree |-> Append(ko, create_section_with_order(en[i], new_entry))]
             ELSE LET r == merge_subsections(en[i], ko[m], local, new_entry)
                  IN  [merged |-> r.merged,
                       ko_toctree |-> [ko EXCEPT ![m] = r.ko_section]]

\* add_new_toctree_entry: the toctree returned
add_new_toctree_entry(en, ko, local) ==
    LET r == merge_toctree_sections(en, ko, local, NewEntry(local), 1)
    IN  IF r.merged THEN r.ko_toctree
        ELSE Append(r.ko_toctree, NewEntry(local))

\* process_pr_commit, lines 196-199: the entry is added to a copy of the
\* Korean toctree; the English toctree was fetched
AddNewToctreeEntry ==
    /\ toc_pc = "idle"
    /\ updated_toctree' = add_new_toctree_entry(en_toctree, ko_toctree, target_local)
    /\ toc_pc' = "done"
    /\ UNCHANGED <<target_local, en_toctree, ko_toctree>>
    /\ UNCHANGED <<host, pc, locals, request, translation_result, chat, pr_agent, reviewer>>

\* add_new_toctree_entry, lines 320-322: fetching the English toctree
\* raises, and the caller's toctree is returned
AddNewToctreeEntryFails ==
    /\ toc_pc = "idle"
    /\ updated_toctree' = ko_toctree
    /\ toc_pc' = "failed"
    /\ UNCHANGED <<target_local, en_toctree, ko_toctree>>
    /\ UNCHANGED <<host, pc, locals, request, translation_result, chat, pr_agent, reviewer>>

NextToc ==
    \/ AddNewToctreeEntry
    \/ AddNewToctreeEntryFails

\* The documents of a section
MaxSections == 3

Locals == {"a", "b", "c", "d"}

\* The lists of at most n entries for different documents
EntryLists(documents, n) ==
    {l \in ListsOf({Entry(d, d) : d \in documents}, n) :
        \A i, j \in 1..Len(l) : i # j => l[i] # l[j]}

\* The English toctree has the section S; the Korean toctree has its
\* translation, with or without entries, or another section only
InitToc ==
    /\ Quiet /\ PrIdle /\ ReviewIdle
    /\ toc_pc = "idle"
    /\ target_local \in Locals
    /\ en_toctree \in {<<[title |-> "S", sections |-> l]>> : l \in EntryLists(Locals, MaxSections)}
    /\ ko_toctree \in
           {<<[title |-> "ko:S", sections |-> l]>> :
               l \in EntryLists(Locals \ {target_local}, MaxSections)}
             \cup {<<[title |-> "ko:S"]>>, <<[title |-> "X", sections |-> <<>>]>>, <<>>}
    /\ updated_toctree = <<>>

SpecToc == InitToc /\ [][NextToc]_vars

\* The section of the Korean toctree that matches the English section with
\* the target, before and after the call (0 when there is none)
MergedInto ==
    IF /\ en_toctree # <<>>
       /\ IndexOfLocal(SectionsOf(en_toctree[1]), target_local, 0) # -1
    THEN find_matching_section(ko_toctree, en_toctree[1].title)
    ELSE 0

\* The elements of a list
Elements(l) == {l[i] : i \in 1..Len(l)}

\* C28: when merge_subsections / insert_at_correct_position adds the new
\* entry to a section of the Korean toctree, every entry the section had
\* before is still in its list, the new entry is in it, and the list holds
\* no None; the caller's ko_toctree is never changed.
C28_InsertPreservesEntries ==
    /\ [](toc_pc = "done" /\ MergedInto # 0 =>
             LET before == SectionsOf(ko_toctree[MergedInto])
                 after  == SectionsOf(updated_toctree[MergedInto])
             IN  /\ Elements(before) \subseteq Elements(after)
                 /\ NewEntry(target_local) \in Elements(after)
                 /\ PyNone \notin Elements(after))
    /\ [][ko_toctree' = ko_toctree]_vars

=============================================================================
